---- MODULE Spec2Model ----
(***************************************************************************)
(* Fraud-scoring core of fraudlens-ai: document validation (OCR data vs.   *)
(* the submitted form), image forensics and aggregation, the weighted      *)
(* fusion of analyzeClaim and the decision engine.                         *)
(*                                                                         *)
(* Strings are sequences of one-character strings.  JavaScript values that *)
(* are falsy (undefined, null, '', 0, NaN) are the empty sequence for      *)
(* strings and 0 for amounts unless said otherwise.                        *)
(***************************************************************************)
EXTENDS Integers, Sequences, FiniteSets, TLC

VARIABLES
    pc,             \* position of the modelled call or request
    extractedData,  \* OCR output handed to validateDocumentData
    formData,       \* form fields handed to validateDocumentData
    validationResults, \* object returned by validateDocumentData
    submission,     \* the other form fields: claimType, description
    damagePhotos,   \* the image buffers of the request or call
    hashStore,      \* the module-level hashStore of imageAnalysis
    clock,          \* the day new Date() falls on
    imageResult,    \* object returned by a call of analyzeImage
    imageAnalysisResults, \* object returned by analyzeMultipleImages
    fraudAnalysis,  \* object returned by analyzeClaim
    decision,       \* object returned by makeDecision
    previous,       \* results of the first of two compared submissions
    args,           \* arguments of a direct call of one helper function
    returned,       \* value returned by that call
    analyses,       \* the calls of calculatePerceptualHash in flight
    tempFiles       \* the files of the temp directory, by name

vars ==
    <<pc, extractedData, formData, validationResults, submission,
      damagePhotos, hashStore, clock, imageResult, imageAnalysisResults,
      fraudAnalysis, decision, previous, args, returned, analyses,
      tempFiles>>

\* the variables only the helper calls and the overlapping analyses use
otherVars == <<args, returned, analyses, tempFiles>>

----------------------------------------------------------------------------
(* Arithmetic helpers *)

\* the element of a one-element set; The({body : x \in {value}}) is body
\* with x bound to value, computed once (a const of the code)
The(S) == CHOOSE r \in S : TRUE

Min2(a, b) == IF a <= b THEN a ELSE b

Max2(a, b) == IF a >= b THEN a ELSE b

\* Math.round(num / den) for num >= 0, den > 0: nearest integer, ties upward.
RoundDiv(num, den) == (2 * num + den) \div (2 * den)

----------------------------------------------------------------------------
(* Characters and the string methods the validation code uses *)

LowerChars == <<"a","b","c","d","e","f","g","h","i","j","k","l","m",
                "n","o","p","q","r","s","t","u","v","w","x","y","z">>

UpperChars == <<"A","B","C","D","E","F","G","H","I","J","K","L","M",
                "N","O","P","Q","R","S","T","U","V","W","X","Y","Z">>

Digits == {"0","1","2","3","4","5","6","7","8","9"}

IsUpper(c) == \E k \in 1..26 : UpperChars[k] = c

IsLower(c) == \E k \in 1..26 : LowerChars[k] = c

ToLowerChar(c) ==
    IF IsUpper(c) THEN LowerChars[CHOOSE k \in 1..26 : UpperChars[k] = c] ELSE c

ToUpperChar(c) ==
    IF IsLower(c) THEN UpperChars[CHOOSE k \in 1..26 : LowerChars[k] = c] ELSE c

\* String.prototype.toLowerCase / toUpperCase
ToLowerCase(s) == SubSeq([k \in 1..Len(s) |-> ToLowerChar(s[k])], 1, Len(s))

ToUpperCase(s) == SubSeq([k \in 1..Len(s) |-> ToUpperChar(s[k])], 1, Len(s))

\* \s of a JavaScript regular expression, over the characters of the model
IsSpace(c) == c = " "

\* \w of a JavaScript regular expression
IsWordChar(c) == IsUpper(c) \/ IsLower(c) \/ c \in Digits \/ c = "_"

\* String.prototype.trim
Trim(s) ==
    LET keep == {k \in 1..Len(s) : ~IsSpace(s[k])}
    IN  IF keep = {} THEN <<>>
        ELSE SubSeq(s, CHOOSE k \in keep : \A l \in keep : k <= l,
                       CHOOSE k \in keep : \A l \in keep : k >= l)

\* s.replace(/\s+/g, ' '): every run of whitespace becomes one space
RECURSIVE CollapseWhitespace(_)
CollapseWhitespace(s) ==
    IF Len(s) = 0 THEN <<>>
    ELSE IF IsSpace(Head(s))
         THEN IF Len(s) > 1 /\ IsSpace(s[2])
              THEN CollapseWhitespace(Tail(s))
              ELSE <<" ">> \o CollapseWhitespace(Tail(s))
         ELSE <<Head(s)>> \o CollapseWhitespace(Tail(s))

\* s ends with suffix, and a word boundary (\b) precedes the suffix
EndsWithWord(s, suffix) ==
    /\ Len(s) >= Len(suffix)
    /\ SubSeq(s, Len(s) - Len(suffix) + 1, Len(s)) = suffix
    /\ \/ Len(s) = Len(suffix)
       \/ ~IsWordChar(s[Len(s) - Len(suffix)])

DropLast(s, n) == SubSeq(s, 1, Len(s) - n)

----------------------------------------------------------------------------
(* documentValidation: stringSimilarity, normalizePolicyNumber,            *)
(* normalizeName, parseAmount                                              *)

Min3(a, b, c) == Min2(a, Min2(b, c))

\* Row i of the Levenshtein matrix of stringSimilarity, filled left to
\* right from row i-1 (prev); index j+1 of a row holds matrix[i][j].
RECURSIVE LevenshteinRow(_, _, _, _, _)
LevenshteinRow(prev, c, s2, j, row) ==
    IF j > Len(s2) THEN row
    ELSE The({LevenshteinRow(prev, c, s2, j + 1, Append(row, cell)) :
                 cell \in {Min3(prev[j + 1] + 1,
                                row[j] + 1,
                                prev[j] + (IF c = s2[j] THEN 0 ELSE 1))}})

RECURSIVE LevenshteinRows(_, _, _, _)
LevenshteinRows(s1, s2, i, prev) ==
    IF i > Len(s1) THEN prev[Len(s2) + 1]
    ELSE The({LevenshteinRows(s1, s2, i + 1, row) :
                 row \in {LevenshteinRow(prev, s1[i], s2, 1, <<i>>)}})

\* matrix[s1.length][s2.length]
Levenshtein(s1, s2) ==
    LevenshteinRows(s1, s2, 1, [j \in 1..(Len(s2) + 1) |-> j - 1])

\* A similarity is the fraction num/den in [0,1].
SimZero == [num |-> 0, den |-> 1]

SimOne == [num |-> 1, den |-> 1]

\* similarity >= pct/100
SimAtLeast(sim, pct) == sim.num * 100 >= pct * sim.den

\* stringSimilarity on the trimmed lowercase strings
Similarity(s1, s2) ==
    IF s1 = s2 THEN SimOne
    ELSE IF Len(s1) = 0 \/ Len(s2) = 0 THEN SimZero
    ELSE [num |-> Max2(Len(s1), Len(s2)) - Levenshtein(s1, s2),
          den |-> Max2(Len(s1), Len(s2))]

stringSimilarity(str1, str2) ==
    IF str1 = <<>> \/ str2 = <<>> THEN SimZero
    ELSE The({Similarity(s1, s2) : s1 \in {Trim(ToLowerCase(str1))},
                                  s2 \in {Trim(ToLowerCase(str2))}})

\* policyNumber.toString().replace(/[\s\-_.]/g, '').toUpperCase()
normalizePolicyNumber(policyNumber) ==
    IF policyNumber = <<>> THEN <<>>
    ELSE ToUpperCase(SelectSeq(policyNumber,
             LAMBDA c : ~(IsSpace(c) \/ c = "-" \/ c = "_" \/ c = ".")))

\* s.replace(/\bsuffix\.?$/i, '') once the dots are gone
StripSuffix(s, suffix) ==
    IF EndsWithWord(s, suffix) THEN DropLast(s, Len(suffix)) ELSE s

\* s.replace(/\biii?$/i, '')
StripNumeral(s) ==
    IF EndsWithWord(s, <<"i","i","i">>) THEN DropLast(s, 3)
    ELSE StripSuffix(s, <<"i","i">>)

\* The chain of replace calls of normalizeName, in the order of the code.
normalizeName(name) ==
    IF name = <<>> THEN <<>>
    ELSE Trim(StripNumeral(StripSuffix(StripSuffix(
             SelectSeq(CollapseWhitespace(Trim(ToLowerCase(name))),
                       LAMBDA c : ~(c = "." \/ c = ",")),
             <<"j","r">>), <<"s","r">>)))

\* parseAmount of a value that already is a number returns it unchanged;
\* every amount of the model is a number (the route passes parseFloat(..),
\* extractCoverageLimits stores parseFloat(..)).
parseAmount(amount) == amount

----------------------------------------------------------------------------
(* ocrService.identifyDocumentType: from the keyword-match counts of the   *)
(* four vocabularies to the reported type and confidence.                  *)

DocTypeNames == <<"policy", "repairEstimate", "medicalBill", "policeReport">>

\* Object.entries(scores).reduce((a, b) => scores[a] > scores[b] ? a : b):
\* the accumulator is kept only when strictly greater, so the last maximum
\* wins.
MaxTypeIndex(scores) ==
    CHOOSE k \in 1..4 :
        /\ \A l \in 1..4 : scores[l] <= scores[k]
        /\ \A l \in (k + 1)..4 : scores[l] < scores[k]

\* the variant whose threshold is two matches or more
ReportTypeAtLeast(scores, k, totalScore) ==
    [present    |-> TRUE,
     type       |-> IF scores[k] >= 2 THEN DocTypeNames[k] ELSE "unknown",
     confidence |-> IF totalScore > 0
                    THEN RoundDiv(scores[k] * 100, totalScore) ELSE 0]

\* the reported type and confidence, from the index of the winning type
\* and the total of the counts
ReportType(scores, k, totalScore) ==
    [present    |-> TRUE,
     type       |-> IF scores[k] > 2 THEN DocTypeNames[k] ELSE "unknown",
     confidence |-> IF totalScore > 0
                    THEN RoundDiv(scores[k] * 100, totalScore) ELSE 0]

identifyDocumentType(scores) ==
    ReportType(scores, MaxTypeIndex(scores),
               scores[1] + scores[2] + scores[3] + scores[4])

----------------------------------------------------------------------------
(* documentValidation.validateDocumentData                                 *)
(*                                                                         *)
(* extractedData: ocr ("null", "error" or "ok"), structuredData fields     *)
(* (policyNumber, policyHolder, insuredName, coverageLimits,               *)
(* coverageAmount, effectiveDate, expirationDate), the top-level fallbacks *)
(* (topPolicyNumber, topPolicyHolder, topCoverageAmount), authenticity,    *)
(* documentType and overallConfidence.                                     *)
(* A date field is [k |-> "absent" | "unparsable" | "date", day |-> n].    *)

\* a || b on strings (the empty string and undefined are falsy)
OrStr(a, b) == IF a # <<>> THEN a ELSE b

\* a || b on numbers (0, NaN and undefined are falsy)
OrNum(a, b) == IF a # 0 THEN a ELSE b

\* new Date(x): an Invalid Date when x does not parse
NewDate(raw) ==
    IF raw.k = "date" THEN raw ELSE [k |-> "invalid", day |-> 0]

\* isNaN(d.getTime())
IsInvalidDate(d) == d.k # "date"

\* Variant of DateBefore with <= in place of <.
DateNotAfter(d1, d2) == d1.k = "date" /\ d2.k = "date" /\ d1.day <= d2.day

\* d1 < d2 on Date objects: false when either is an Invalid Date
DateBefore(d1, d2) == d1.k = "date" /\ d2.k = "date" /\ d1.day < d2.day

\* the validationResults object as first built (lines 93-100)
NewValidationResults ==
    [isValid        |-> TRUE,
     fraudScore     |-> 0,
     indicators     |-> <<>>,
     warnings       |-> <<>>,
     ocrStatus      |-> "unset",
     policyStatus   |-> "unset",
     policyMatch    |-> FALSE,
     policySim      |-> SimZero,
     nameStatus     |-> "unset",
     nameMatch      |-> FALSE,
     nameSim        |-> SimZero,
     coverage       |-> 0,
     coverageType   |-> "",
     exceeds        |-> FALSE,
     coverageStatus |-> "unset",
     datesStatus    |-> "unset",
     ocrConfidence  |-> 0]

\* fraudScore += penalty; indicators.push(indicator)
Penalize(r, penalty, indicator) ==
    [r EXCEPT !.fraudScore = @ + penalty,
              !.indicators = Append(@, indicator)]

Warn(r, warning) == [r EXCEPT !.warnings = Append(@, warning)]

\* the comparison of the policy numbers once both are normalised
ComparePolicyNumbers(r, normalizedExtracted, normalizedSubmitted, similarity) ==
    IF normalizedExtracted = normalizedSubmitted
    THEN [r EXCEPT !.policyMatch = TRUE, !.policySim = SimOne,
                   !.policyStatus = "match"]
    ELSE IF SimAtLeast(similarity, 90)
    THEN [Warn(r, "Policy number close match - possible OCR error")
             EXCEPT !.policySim = similarity, !.policyMatch = TRUE,
                    !.policyStatus = "probable_match"]
    ELSE [Penalize(r, 30, "Policy number mismatch")
             EXCEPT !.policySim = similarity,
                    !.policyStatus = "mismatch", !.isValid = FALSE]

ValidatePolicyNumber(r, e, f) ==
    IF OrStr(e.policyNumber, e.topPolicyNumber) = <<>>
    THEN [Penalize(r, 15, "No policy number found in uploaded document")
             EXCEPT !.policyStatus = "not_found"]
    ELSE The({ComparePolicyNumbers(r, x, s, stringSimilarity(x, s)) :
                x \in {normalizePolicyNumber(
                           OrStr(e.policyNumber, e.topPolicyNumber))},
                s \in {normalizePolicyNumber(f.policyNumber)}})

\* the thresholds of the name comparison
CompareNames(r, similarity) ==
    IF SimAtLeast(similarity, 95)
    THEN [r EXCEPT !.nameSim = similarity, !.nameMatch = TRUE,
                   !.nameStatus = "match"]
    ELSE IF SimAtLeast(similarity, 70)
    THEN [Warn(r, "Name similarity")
             EXCEPT !.nameSim = similarity, !.nameMatch = TRUE,
                    !.nameStatus = "probable_match"]
    ELSE [Penalize(r, 20, "Name mismatch")
             EXCEPT !.nameSim = similarity,
                    !.nameStatus = "mismatch", !.isValid = FALSE]

ValidateName(r, e, f) ==
    IF OrStr(e.policyHolder, OrStr(e.insuredName, e.topPolicyHolder)) = <<>>
    THEN [Warn(r, "Could not extract policy holder name from document")
             EXCEPT !.nameStatus = "not_found"]
    ELSE The({CompareNames(r, similarity) :
                similarity \in {stringSimilarity(
                    normalizeName(OrStr(e.policyHolder,
                        OrStr(e.insuredName, e.topPolicyHolder))),
                    normalizeName(f.claimantName))}})

\* Variant of SelectCoverage that takes the generic total before any
\* peril-specific limit.
SelectCoverageTotalFirst(e) ==
    The({[amount |-> first, type |-> IF first = 0 THEN "" ELSE "total"] :
            first \in {OrNum(OrNum(e.coverageAmount, e.topCoverageAmount),
                         OrNum(e.coverageLimits.perOccurrence,
                         OrNum(e.coverageLimits.comprehensive,
                         OrNum(e.coverageLimits.collision,
                         OrNum(e.coverageLimits.dwelling,
                               e.coverageLimits.personalProperty)))))}})

\* lines 198-223: the first truthy peril-specific limit, else the total
SpecificLimit(limits) ==
    IF limits.perOccurrence # 0
    THEN [amount |-> parseAmount(limits.perOccurrence),
          type |-> "per occurrence"]
    ELSE IF limits.comprehensive # 0
    THEN [amount |-> parseAmount(limits.comprehensive),
          type |-> "comprehensive"]
    ELSE IF limits.collision # 0
    THEN [amount |-> parseAmount(limits.collision), type |-> "collision"]
    ELSE IF limits.dwelling # 0
    THEN [amount |-> parseAmount(limits.dwelling), type |-> "dwelling"]
    ELSE IF limits.personalProperty # 0
    THEN [amount |-> parseAmount(limits.personalProperty),
          type |-> "personal property"]
    ELSE [amount |-> 0, type |-> ""]

\* if (!maxCoverage && (coverageAmount || top-level coverageAmount))
TotalIfNone(specific, total) ==
    IF specific.amount = 0 /\ total # 0
    THEN [amount |-> parseAmount(total), type |-> "total"]
    ELSE specific

SelectCoverage(e) ==
    TotalIfNone(SpecificLimit(e.coverageLimits),
                OrNum(e.coverageAmount, e.topCoverageAmount))

\* the comparison of the claim amount with the selected limit
CompareCoverage(r0, maxCoverage, claimAmount) ==
    IF maxCoverage > 0
    THEN IF claimAmount > maxCoverage
         THEN [Penalize(r0, 25, "Claim amount exceeds coverage limit")
                  EXCEPT !.exceeds = TRUE,
                         !.coverageStatus = "exceeds_coverage",
                         !.isValid = FALSE]
         ELSE IF 10 * claimAmount > 9 * maxCoverage
         THEN [Warn(r0, "Claim amount is very close to coverage limit")
                  EXCEPT !.coverageStatus = "near_limit"]
         ELSE [r0 EXCEPT !.coverageStatus = "within_coverage"]
    ELSE [Warn(r0, "Could not extract coverage amount from document")
             EXCEPT !.coverageStatus = "not_found"]

ValidateCoverage(r, e, f) ==
    The({CompareCoverage([r EXCEPT !.coverage = sel.amount,
                                   !.coverageType = sel.type],
                         sel.amount, parseAmount(f.claimAmount)) :
            sel \in {SelectCoverage(e)}})

\* if (effectiveDate && incidentDate && !isNaN(effectiveDate.getTime()))
CheckEffective(r, e, f) ==
    IF e.effectiveDate.k # "absent" /\ f.incidentDate.k # "absent"
       /\ ~IsInvalidDate(NewDate(e.effectiveDate))
    THEN IF DateBefore(NewDate(f.incidentDate), NewDate(e.effectiveDate))
         THEN [Penalize(r, 20,
                  "Incident date is before policy effective date")
                  EXCEPT !.datesStatus = "incident_before_effective",
                         !.isValid = FALSE]
         ELSE [r EXCEPT !.datesStatus = "valid"]
    ELSE r

\* if (expirationDate && incidentDate && !isNaN(expirationDate.getTime()))
CheckExpiration(r, e, f) ==
    IF e.expirationDate.k # "absent" /\ f.incidentDate.k # "absent"
       /\ ~IsInvalidDate(NewDate(e.expirationDate))
       /\ DateBefore(NewDate(e.expirationDate), NewDate(f.incidentDate))
    THEN [Penalize(r, 25, "Incident date is after policy expiration")
             EXCEPT !.datesStatus = "incident_after_expiration",
                    !.isValid = FALSE]
    ELSE r

ValidatePolicyDates(r, e, f) == CheckExpiration(CheckEffective(r, e, f), e, f)

\* Variant of ValidateAuthenticity in which a failed check scores but leaves
\* isValid.
ValidateAuthenticityScoreOnly(r, e) ==
    IF e.authenticity = "forged"
    THEN Penalize(r, 35,
             "Document authenticity check failed - possible forgery")
    ELSE IF e.authenticity = "suspicious"
    THEN Warn(r, "Document has suspicious elements")
    ELSE r

\* authenticity: "absent", "authentic", "suspicious" (authentic, with
\* suspiciousElements) or "forged" (isAuthentic === false)
ValidateAuthenticity(r, e) ==
    IF e.authenticity = "forged"
    THEN [Penalize(r, 35,
             "Document authenticity check failed - possible forgery")
             EXCEPT !.isValid = FALSE]
    ELSE IF e.authenticity = "suspicious"
    THEN Warn(r, "Document has suspicious elements")
    ELSE r

\* lines 300-308: documentType.confidence > 0.7, where confidence is the
\* value identifyDocumentType reports (an integer percentage, 0..100).
ValidateDocumentType(r, e) ==
    IF e.documentType.present /\ e.documentType.type # "policy"
       /\ 10 * e.documentType.confidence > 7
    THEN [Warn(r, "Uploaded document appears not to be a policy document")
             EXCEPT !.fraudScore = @ + 10]
    ELSE r

ValidateOcrConfidence(r, e) ==
    IF e.overallConfidence < 50
    THEN Warn([r EXCEPT !.ocrConfidence = e.overallConfidence],
              "Low OCR confidence")
    ELSE [r EXCEPT !.ocrConfidence = e.overallConfidence]

\* validationResults.fraudScore = Math.min(validationResults.fraudScore, 100)
CapScore(r) == [r EXCEPT !.fraudScore = Min2(@, 100)]

validateDocumentData(e, f) ==
    IF e.ocr # "ok"
    THEN [Warn(NewValidationResults,
               "Document OCR processing failed or returned no data")
             EXCEPT !.ocrStatus = "failed"]
    ELSE CapScore(
             ValidateOcrConfidence(
                 ValidateDocumentType(
                     ValidateAuthenticity(
                         ValidatePolicyDates(
                             ValidateCoverage(
                                 ValidateName(
                                     ValidatePolicyNumber(
                                         NewValidationResults, e, f),
                                     e, f),
                                 e, f),
                             e, f),
                         e),
                     e),
                 e))

----------------------------------------------------------------------------
(* imageAnalysis: the sub-checks of analyzeImage                           *)
(*                                                                         *)
(* An image is the record of what the decoders and pixel statistics report *)
(* for its bytes: decodable (sharp reads it), exifParses (ExifParser does  *)
(* not throw), software ("none", "camera" or "editor": the Software tag    *)
(* names one of the editing tools), captureDay (DateTimeOriginal, 0 when   *)
(* absent), cameraMake, gps, width, height, blurry (sharpness < 10),       *)
(* lowContrast (contrast < 50), recompressed (jpeg and heavilyCompressed), *)
(* lighting (analyzeLighting inconsistent), ela (manipulationDetected),    *)
(* phash (imghash.hash, a string of hex digits), red/green/blue (channel   *)
(* means) and edges (highEdgeDensity).                                     *)

OutdoorScene ==
    <<"o", "u", "t", "d", "o", "o", "r", "_", "s", "c", "e", "n", "e">>

Vegetation == <<"v", "e", "g", "e", "t", "a", "t", "i", "o", "n">>

Vehicle == <<"v", "e", "h", "i", "c", "l", "e">>

BuildingInterior ==
    <<"b", "u", "i", "l", "d", "i", "n", "g", "_", "i", "n", "t", "e",
      "r", "i", "o", "r">>

FireDamage == <<"f", "i", "r", "e", "_", "d", "a", "m", "a", "g", "e">>

WaterDamage == <<"w", "a", "t", "e", "r", "_", "d", "a", "m", "a", "g", "e">>

StructuralDamage ==
    <<"s", "t", "r", "u", "c", "t", "u", "r", "a", "l", "_", "d", "a",
      "m", "a", "g", "e">>

\* hay.includes(needle)
Includes(hay, needle) ==
    \E k \in 0..(Len(hay) - Len(needle)) :
        SubSeq(hay, k + 1, k + Len(needle)) = needle

NoSubResult == [fraudIndicators |-> <<>>, fraudScore |-> 0]

AddIndicator(r, penalty, indicator) ==
    [r EXCEPT !.fraudScore = @ + penalty,
              !.fraudIndicators = Append(@, indicator)]

\* if (condition) { fraudIndicators.push(indicator); fraudScore += penalty }
AddIf(r, condition, penalty, indicator) ==
    IF condition THEN AddIndicator(r, penalty, indicator) ELSE r

\* results.fraudIndicators.push(...sub.fraudIndicators);
\* results.fraudScore += sub.fraudScore
Merge(results, sub) ==
    [fraudIndicators |-> results.fraudIndicators \o sub.fraudIndicators,
     fraudScore      |-> results.fraudScore + sub.fraudScore]

\* the sub-check throws inside its try block: the bytes cannot be decoded,
\* or one of the steps of this sub-check alone fails on them
Fails(image, check) == ~image.decodable \/ check \in image.failing

extractExifMetadata(image) ==
    IF ~image.exifParses
    THEN AddIndicator(NoSubResult, 10,
             "No EXIF metadata found - possibly a screenshot or web image")
    ELSE AddIf(AddIf(NoSubResult, image.software = "editor", 20,
                     "Image edited with"),
               ~(image.captureDay # 0 \/ image.cameraMake \/ image.gps), 15,
               "Image metadata stripped - possible attempt to hide origin")

analyzeImageQuality(image) ==
    IF Fails(image, "quality") THEN NoSubResult
    ELSE AddIf(AddIf(AddIf(
             IF image.width * image.height < 100000
             THEN AddIndicator(NoSubResult, 15,
               "Very low resolution image - possibly screenshot of screenshot")
             ELSE AddIf(NoSubResult, image.width * image.height < 500000, 5,
                        "Low resolution image"),
             image.blurry, 10, "Image appears blurry - may obscure details"),
             image.lowContrast, 5, "Unusually low image contrast"),
             image.recompressed, 10,
             "Image shows signs of multiple compressions")

Abs(x) == IF x < 0 THEN 0 - x ELSE x

\* commonStockRatios 1.0, 1.5, 1.778, 2.0, in thousandths;
\* Math.abs(width / height - r) < 0.01
CommonStockRatios == {1000, 1500, 1778, 2000}

IsCommonRatio(width, height) ==
    \E r \in CommonStockRatios :
        Abs(1000 * width - r * height) < 10 * height

detectImageEditing(image) ==
    IF Fails(image, "tamper") THEN NoSubResult
    ELSE AddIf(AddIf(AddIf(NoSubResult,
             image.lighting, 15,
             "Inconsistent lighting detected - possible image manipulation"),
             image.ela, 20,
             "Potential image manipulation detected (ELA analysis)"),
             IsCommonRatio(image.width, image.height) /\ image.width >= 1920,
             10, "Image dimensions match common stock photo formats")

\* the loop run over the length of the first hash, where a position the
\* second hash lacks counts as a difference
hammingDistanceOverFirst(hash1, hash2) ==
    Cardinality({k \in 1..Len(hash1) :
                    k > Len(hash2) \/ hash1[k] # hash2[k]})

\* the loop of hammingDistance: positions that differ, up to the shorter
\* length
hammingDistance(hash1, hash2) ==
    Cardinality({k \in 1..Min2(Len(hash1), Len(hash2)) :
                    hash1[k] # hash2[k]})

\* the variant that also compares with the hashes of the current claim
CrossClaimDuplicatesAll(hash, claimIdentifier, store) ==
    UNION {{<<storedClaim, k>> :
               k \in {k \in 1..Len(store[storedClaim]) :
                         hammingDistance(hash, store[storedClaim][k]) < 5}} :
           storedClaim \in DOMAIN store}

\* hashStore is a function from claim identifiers to lists of hashes.
\* One duplicates entry per stored hash of another claim at distance < 5.
CrossClaimDuplicates(hash, claimIdentifier, store) ==
    UNION {{<<storedClaim, k>> :
               k \in {k \in 1..Len(store[storedClaim]) :
                         hammingDistance(hash, store[storedClaim][k]) < 5}} :
           storedClaim \in (DOMAIN store) \ {claimIdentifier}}

\* the variant that replaces the list of the identifier by the new hash
StoreHashOverwrite(store, claimIdentifier, hash) ==
    IF claimIdentifier = <<>> THEN store
    ELSE [c \in DOMAIN store \cup {claimIdentifier} |->
             IF c = claimIdentifier THEN <<hash>> ELSE store[c]]

\* if (claimIdentifier) { ...; hashStore.get(claimIdentifier).push(hash) }
StoreHash(store, claimIdentifier, hash) ==
    IF claimIdentifier = <<>> THEN store
    ELSE IF claimIdentifier \in DOMAIN store
    THEN [store EXCEPT ![claimIdentifier] = Append(@, hash)]
    ELSE [c \in DOMAIN store \cup {claimIdentifier} |->
             IF c = claimIdentifier THEN <<hash>> ELSE store[c]]

\* calculatePerceptualHash run without interruption; hash = <<>> and an
\* unchanged store when imghash cannot read the bytes (the catch block)
calculatePerceptualHash(image, claimIdentifier, store) ==
    IF Fails(image, "hashing")
    THEN [fraudIndicators |-> <<>>, fraudScore |-> 0, hash |-> <<>>,
          duplicates |-> 0, store |-> store]
    ELSE The({[fraudIndicators |->
                   IF duplicates > 0
                   THEN <<"Image matches photos from "
                          \o ToString(duplicates) \o " other claim(s)">>
                   ELSE <<>>,
               fraudScore |-> IF duplicates > 0 THEN 30 ELSE 0,
               hash |-> image.phash,
               duplicates |-> duplicates,
               store |-> StoreHash(store, claimIdentifier, image.phash)] :
                 duplicates \in
                     {Cardinality(CrossClaimDuplicates(image.phash,
                                      claimIdentifier, store))}})

\* push(label) under its condition
LabelIf(condition, label) == IF condition THEN <<label>> ELSE <<>>

\* the labels detectObjects pushes, in the order of the code
DetectedLabels(avgRed, avgGreen, avgBlue, edges) ==
    LabelIf(avgBlue > avgRed /\ avgBlue > avgGreen /\ avgBlue > 150,
            OutdoorScene)
    \o LabelIf(avgGreen > avgRed /\ avgGreen > avgBlue, Vegetation)
    \o LabelIf(Abs(avgRed - avgGreen) < 20 /\ Abs(avgGreen - avgBlue) < 20
               /\ avgRed > 80 /\ avgRed < 180, Vehicle)
    \o LabelIf(avgRed > avgBlue /\ avgGreen > avgBlue /\ avgRed > 100,
               BuildingInterior)
    \o LabelIf(avgRed > 200 /\ avgGreen < 150 /\ avgBlue < 150, FireDamage)
    \o LabelIf(avgBlue > 120 /\ avgRed > 80, WaterDamage)
    \o LabelIf(edges, StructuralDamage)

detectObjects(image) ==
    IF Fails(image, "labels") THEN <<>>
    ELSE DetectedLabels(image.red, image.green, image.blue, image.edges)

\* A claim type is [isString, text]: text is the string (<<>> when absent
\* or empty); isString = FALSE is a truthy value that is not a string, for
\* which claimType.toLowerCase() throws a TypeError.
ClaimType(text) == [isString |-> TRUE, text |-> text]

NonStringClaimType == [isString |-> FALSE, text |-> <<>>]

\* expectedObjects[claimTypeLower] || []
ExpectedObjects(claimTypeLower) ==
    IF claimTypeLower = <<"a", "u", "t", "o">>
    THEN {<<"v", "e", "h", "i", "c", "l", "e">>,
         <<"c", "a", "r">>,
         <<"a", "u", "t", "o", "m", "o", "b", "i", "l", "e">>,
         <<"o", "u", "t", "d", "o", "o", "r", "_", "s", "c", "e", "n", "e">>,
         <<"s", "t", "r", "u", "c", "t", "u", "r", "a", "l", "_", "d", "a", "m", "a", "g", "e">>}
    ELSE IF claimTypeLower = <<"h", "o", "m", "e">>
    THEN {<<"b", "u", "i", "l", "d", "i", "n", "g", "_", "i", "n", "t", "e", "r", "i", "o", "r">>,
         <<"h", "o", "u", "s", "e">>,
         <<"b", "u", "i", "l", "d", "i", "n", "g">>,
         <<"f", "i", "r", "e", "_", "d", "a", "m", "a", "g", "e">>,
         <<"w", "a", "t", "e", "r", "_", "d", "a", "m", "a", "g", "e">>,
         <<"s", "t", "r", "u", "c", "t", "u", "r", "a", "l", "_", "d", "a", "m", "a", "g", "e">>}
    ELSE IF claimTypeLower = <<"h", "e", "a", "l", "t", "h">>
    THEN {<<"m", "e", "d", "i", "c", "a", "l">>,
         <<"h", "o", "s", "p", "i", "t", "a", "l">>,
         <<"d", "o", "c", "u", "m", "e", "n", "t">>,
         <<"p", "e", "r", "s", "o", "n">>}
    ELSE {}

\* Lowercase keys that expectedObjects inherits from Object.prototype: the
\* lookup yields a value that is truthy and has no method `some`.
InheritedKeys ==
    {<<"c", "o", "n", "s", "t", "r", "u", "c", "t", "o", "r">>,
     <<"_", "_", "p", "r", "o", "t", "o", "_", "_">>}

\* threw = TRUE stands for the TypeError of claimType.toLowerCase() on a
\* value that is not a string, or of expected.some on an inherited value
NoVerification ==
    [matches |-> FALSE, fraudIndicators |-> <<>>, fraudScore |-> 0,
     threw |-> FALSE]

\* detectedObjects.some(obj => expected.some(exp =>
\*     obj.toLowerCase().includes(exp) || exp.includes(obj.toLowerCase())))
MatchesExpected(detectedObjects, expected) ==
    \E k \in 1..Len(detectedObjects) :
        \E l \in {ToLowerCase(detectedObjects[k])} :
            \E e \in expected : Includes(l, e) \/ Includes(e, l)

VerifyLower(detectedObjects, claimTypeLower) ==
    IF claimTypeLower \in InheritedKeys
    THEN [NoVerification EXCEPT !.threw = TRUE]
    ELSE IF MatchesExpected(detectedObjects, ExpectedObjects(claimTypeLower))
    THEN [NoVerification EXCEPT !.matches = TRUE]
    ELSE [NoVerification EXCEPT
             !.fraudIndicators =
                 <<"Image content doesn't appear to match claim type">>,
             !.fraudScore = 15]

verifyClaimType(detectedObjects, claimType) ==
    IF (claimType.isString /\ claimType.text = <<>>)
       \/ Len(detectedObjects) = 0
    THEN NoVerification
    ELSE IF ~claimType.isString
    THEN [NoVerification EXCEPT !.threw = TRUE]
    ELSE The({VerifyLower(detectedObjects, claimTypeLower) :
                 claimTypeLower \in {ToLowerCase(claimType.text)}})

\* Math.floor((imgDate - incDate) / day) on a capture day and a parsable
\* incident date; no penalty when the incident date does not parse
verifyImageDate(captureDay, incidentDate) ==
    IF incidentDate.k # "date" THEN NoSubResult
    ELSE IF captureDay - incidentDate.day < -30
    THEN AddIndicator(NoSubResult, 25,
             "Photo was taken more than 30 days before claimed incident")
    ELSE IF captureDay - incidentDate.day < -7
    THEN AddIndicator(NoSubResult, 15,
             "Photo was taken days before claimed incident")
    ELSE IF captureDay - incidentDate.day > 30
    THEN AddIndicator(NoSubResult, 5,
             "Photo was taken days after claimed incident")
    ELSE NoSubResult

calculateConfidence(image, hash, detectedObjects) ==
    Min2(50 + (IF image.exifParses /\ image.captureDay # 0 THEN 10 ELSE 0)
            + (IF image.exifParses /\ image.cameraMake THEN 5 ELSE 0)
            + (IF ~Fails(image, "quality") /\ image.width > 0 THEN 10
               ELSE 0)
            + (IF hash # <<>> THEN 15 ELSE 0)
            + (IF Len(detectedObjects) > 0 THEN 10 ELSE 0),
         100)

\* stockResolutions, each matched in either orientation
StockResolutions ==
    {<<1920, 1080>>, <<1280, 720>>, <<3840, 2160>>, <<4000, 6000>>,
     <<6000, 4000>>, <<5000, 3333>>, <<4500, 3000>>}

IsStockResolution(width, height) ==
    <<width, height>> \in StockResolutions
    \/ <<height, width>> \in StockResolutions

\* the confidence detectStockPhoto adds up: the resolution, a uniform
\* bottom region (detectWatermarkRemoval), and a mean brightness between
\* 100 and 170 with a mean deviation under 40 at a width of 2000 or more
StockConfidence(image) ==
    (IF IsStockResolution(image.width, image.height) THEN 30 ELSE 0)
    + (IF image.uniformFooter THEN 40 ELSE 0)
    + (IF image.red + image.green + image.blue > 300
          /\ image.red + image.green + image.blue < 510
          /\ image.exposure < 40 /\ image.width >= 2000
       THEN 20 ELSE 0)

\* imageAnalysis.detectStockPhoto, which no other function of the module
\* calls
detectStockPhoto(image) ==
    IF ~image.decodable
    THEN [isStockPhoto |-> FALSE, confidence |-> 0,
          fraudIndicators |-> <<>>, fraudScore |-> 0]
    ELSE [isStockPhoto |->
              IsStockResolution(image.width, image.height)
              \/ image.uniformFooter \/ StockConfidence(image) >= 50,
          confidence |-> StockConfidence(image),
          fraudIndicators |->
              LabelIf(IsStockResolution(image.width, image.height),
                  "Image resolution matches common stock photo dimensions")
              \o LabelIf(image.uniformFooter,
                     "Possible watermark removal detected")
              \o LabelIf(StockConfidence(image) >= 50,
                  "Image characteristics suggest it may be a stock photo"),
          fraudScore |-> (IF image.uniformFooter THEN 25 ELSE 0)
                         + (IF StockConfidence(image) >= 50 THEN 20
                            ELSE 0)]

\* getRiskLevel of imageAnalysis
getRiskLevel(score) ==
    IF score >= 60 THEN "HIGH" ELSE IF score >= 30 THEN "MEDIUM" ELSE "LOW"

\* what analyzeImage returns in either path
ImageCommon(hashResults, objects) ==
    [hash            |-> hashResults.hash,
     duplicatesFound |-> hashResults.duplicates > 0,
     detectedObjects |-> objects,
     store           |-> hashResults.store]

\* the catch block of analyzeImage: the penalty is added to the score the
\* merges have reached, and the result is returned as it stands
ImageFailed(merged) ==
    [fraudIndicators |-> Append(merged.fraudIndicators,
         "Image analysis failed - possible corrupt or invalid file"),
     fraudScore |-> merged.fraudScore + 15,
     error      |-> TRUE,
     confidence |-> 0,
     riskLevel  |-> "unset"]

\* the end of the try block: cap, confidence and risk level
ImageScored(image, hash, objects, all) ==
    [fraudIndicators |-> all.fraudIndicators,
     fraudScore |-> Min2(all.fraudScore, 100),
     error      |-> FALSE,
     confidence |-> calculateConfidence(image, hash, objects),
     riskLevel  |-> getRiskLevel(Min2(all.fraudScore, 100))]

\* the date check of analyzeImage: run when the EXIF block has a capture
\* date and the claim an incident date
DateCheck(image, claimData) ==
    IF image.exifParses /\ image.captureDay # 0
       /\ claimData.incidentDate.k # "absent"
    THEN verifyImageDate(image.captureDay, claimData.incidentDate)
    ELSE NoSubResult

\* analyzeImage from the claim type verification onwards
ImageVerified(image, claimData, hashResults, objects, merged, claimTypeVerification) ==
    ImageCommon(hashResults, objects)
    @@ (IF claimTypeVerification.threw
        THEN ImageFailed(merged)
        ELSE ImageScored(image, hashResults.hash, objects,
                 Merge(Merge(merged, claimTypeVerification),
                       DateCheck(image, claimData))))

\* analyzeImage after the perceptual hash and the object detection
ImageHashed(image, claimData, hashResults, objects) ==
    The({ImageVerified(image, claimData, hashResults, objects, merged,
                       claimTypeVerification) :
            merged \in
                {Merge(Merge(Merge(Merge(NoSubResult,
                                         extractExifMetadata(image)),
                                   analyzeImageQuality(image)),
                             detectImageEditing(image)),
                       hashResults)},
            claimTypeVerification \in
                {verifyClaimType(objects, claimData.claimType)}})

\* the variant in which the sub-checks do not catch their own errors: the
\* first one that fails rejects Promise.all, and the catch block of
\* analyzeImage receives the error before anything is merged
analyzeImageUnguarded(image, claimData, store) ==
    IF ~image.readable \/ ~image.exifParses \/ ~image.decodable
       \/ image.failing # {}
    THEN ImageCommon([hash |-> <<>>, duplicates |-> 0, store |-> store],
                     <<>>)
         @@ ImageFailed(NoSubResult)
    ELSE The({ImageHashed(image, claimData, hashResults, objects) :
                 hashResults \in {calculatePerceptualHash(image,
                                      claimData.policyNumber, store)},
                 objects \in {detectObjects(image)}})

\* analyzeImage on an image buffer, or on a path (readable = FALSE: a path
\* fs.readFile rejects, which the catch block of analyzeImage receives
\* before any sub-check has run).  claimData carries claimType,
\* incidentDate and policyNumber.  Returns the results object and the hash
\* store as calculatePerceptualHash leaves it.
analyzeImage(image, claimData, store) ==
    IF ~image.readable
    THEN ImageCommon([hash |-> <<>>, duplicates |-> 0, store |-> store],
                     <<>>)
         @@ ImageFailed(NoSubResult)
    ELSE The({ImageHashed(image, claimData, hashResults, objects) :
                 hashResults \in {calculatePerceptualHash(image,
                                      claimData.policyNumber, store)},
                 objects \in {detectObjects(image)}})

\* the variant whose inner loop starts at 0: every pair twice
findInternalDuplicatesOrdered(hashes) ==
    {<<i, j>> \in (1..Len(hashes)) \X (1..Len(hashes)) :
        i # j /\ hammingDistance(hashes[i], hashes[j]) < 3}

\* pairs [i, j], i < j, of hashes at distance < 3
findInternalDuplicates(hashes) ==
    {<<i, j>> \in (1..Len(hashes)) \X (1..Len(hashes)) :
        i < j /\ hammingDistance(hashes[i], hashes[j]) < 3}

\* The number NaN of JavaScript (0 / 0); arithmetic on it yields NaN and
\* every comparison with it is false.
NaN == -1

\* x + y, Math.min(x, y) and x || 0 where x may be NaN
PlusNum(x, y) == IF x = NaN THEN NaN ELSE x + y

MinNum(x, y) == IF x = NaN THEN NaN ELSE Min2(x, y)

OrZero(x) == IF x = NaN THEN 0 ELSE x

\* the for loop of analyzeMultipleImages: one analyzeImage after the other,
\* each seeing the store the previous one left
RECURSIVE AnalyzeEach(_, _, _, _)
AnalyzeEach(images, claimData, store, allResults) ==
    IF Len(images) = 0 THEN [allResults |-> allResults, store |-> store]
    ELSE The({AnalyzeEach(Tail(images), claimData, result.store,
                          Append(allResults, result)) :
                 result \in {analyzeImage(Head(images), claimData, store)}})

\* sum of a sequence of numbers
RECURSIVE SumOver(_)
SumOver(seq) ==
    IF Len(seq) = 0 THEN 0 ELSE Head(seq) + SumOver(Tail(seq))

\* Array.from(new Set(...)): first occurrences, in order
RECURSIVE UniqueFrom(_, _)
UniqueFrom(seq, seen) ==
    IF Len(seq) = 0 THEN seen
    ELSE UniqueFrom(Tail(seq),
                    IF Head(seq) \in {seen[k] : k \in 1..Len(seen)}
                    THEN seen ELSE Append(seen, Head(seq)))

Unique(seq) == UniqueFrom(seq, <<>>)

RECURSIVE Flatten(_)
Flatten(seqs) ==
    IF Len(seqs) = 0 THEN <<>> ELSE Head(seqs) \o Flatten(Tail(seqs))

\* x += y under a condition, and push under a condition
PlusIf(x, condition, y) == IF condition THEN PlusNum(x, y) ELSE x

AppendIf(seq, condition, x) == IF condition THEN Append(seq, x) ELSE seq

\* the fields f of the results, as a list
FieldOf(allResults, f) ==
    SubSeq([k \in 1..Len(allResults) |-> allResults[k][f]],
           1, Len(allResults))

\* Math.round(totalScore / allResults.length): NaN for no results
MeanScore(allResults) ==
    IF Len(allResults) = 0 THEN NaN
    ELSE RoundDiv(SumOver(FieldOf(allResults, "fraudScore")),
                  Len(allResults))

\* analyzeMultipleImages once the score is combined
Combined(images, allResults, internalDuplicates, store, combinedFraudScore) ==
    [imageCount         |-> Len(images),
     individualResults  |-> allResults,
     combinedFraudScore |-> combinedFraudScore,
     combinedIndicators |->
         AppendIf(AppendIf(
             Unique(Flatten(FieldOf(allResults, "fraudIndicators"))),
             internalDuplicates # {},
             ToString(Cardinality(internalDuplicates))
                 \o " duplicate images detected in submission"),
             Len(images) = 0, "No damage photos provided"),
     duplicatePairs     |-> Cardinality(internalDuplicates),
     overallRiskLevel   |-> getRiskLevel(combinedFraudScore),
     confidence         |-> [num |-> SumOver(FieldOf(allResults,
                                                     "confidence")),
                             den |-> Max2(Len(allResults), 1)],
     store              |-> store]

\* analyzeMultipleImages after the loop and the search for duplicates
\* within the submission
Aggregate(images, allResults, internalDuplicates, store) ==
    The({Combined(images, allResults, internalDuplicates, store,
                  combinedFraudScore) :
            combinedFraudScore \in
                {MinNum(PlusIf(PlusIf(MeanScore(allResults),
                                      internalDuplicates # {}, 20),
                               Len(images) = 0, 15),
                        100)}})

\* analyzeMultipleImages after the loop
Analyzed(images, run) ==
    The({Aggregate(images, run.allResults, internalDuplicates, run.store) :
            internalDuplicates \in
                {findInternalDuplicates(
                     SelectSeq(FieldOf(run.allResults, "hash"),
                               LAMBDA h : h # <<>>))}})

analyzeMultipleImages(images, claimData, store) ==
    The({Analyzed(images, run) :
            run \in {AnalyzeEach(images, claimData, store, <<>>)}})

----------------------------------------------------------------------------
(* fraudDetection.analyzeClaim and decisionEngine.makeDecision             *)
(*                                                                         *)
(* claimData: policyNumber, claimAmount, incidentDate, claimType,          *)
(* description (a string, <<>> when absent or empty), extractedData and    *)
(* documentValidation ([present, fraudScore, indicators, isValid];         *)
(* present = FALSE is null).  today is the day new Date() falls on.        *)

suspiciousKeywords ==
    <<<<"t", "o", "t", "a", "l", " ", "l", "o", "s", "s">>,
      <<"c", "o", "m", "p", "l", "e", "t", "e", "l", "y", " ", "d", "e", "s", "t", "r", "o", "y", "e", "d">>,
      <<"s", "t", "o", "l", "e", "n">>,
      <<"f", "i", "r", "e">>,
      <<"f", "l", "o", "o", "d">>>>

\* getDay() of a day number: day 0 is a Thursday, 0 = Sunday
DayOfWeek(day) == (4 + day) % 7

NoDocumentValidation ==
    [present |-> FALSE, fraudScore |-> 0, indicators |-> <<>>,
     isValid |-> TRUE]

DocumentValidationOf(r) ==
    [present |-> TRUE, fraudScore |-> r.fraudScore,
     indicators |-> r.indicators, isValid |-> r.isValid]

\* suspiciousKeywords.filter(keyword => descLower.includes(keyword))
FoundKeywords(descLower) ==
    SelectSeq(suspiciousKeywords, LAMBDA keyword : Includes(descLower, keyword))

\* the six rules of the text/data analysis, as the set of those that fire
FiredRules(claimData, today) ==
    (IF claimData.claimAmount > 50000 THEN {"amount"} ELSE {})
    \cup (IF claimData.incidentDate.k = "date"
             /\ today - claimData.incidentDate.day = 0
          THEN {"sameDay"} ELSE {})
    \cup (IF claimData.description # <<>>
             /\ Len(claimData.description) < 50
          THEN {"description"} ELSE {})
    \cup (IF claimData.incidentDate.k = "date"
             /\ DayOfWeek(claimData.incidentDate.day) \in {0, 6}
          THEN {"weekend"} ELSE {})
    \cup (IF claimData.claimAmount % 1000 = 0 THEN {"round"} ELSE {})
    \cup (IF \E descLower \in {ToLowerCase(claimData.description)} :
                Len(FoundKeywords(descLower)) >= 2
          THEN {"keywords"} ELSE {})

RuleIndicators ==
    <<[rule |-> "amount", penalty |-> 25,
       indicator |-> "High claim amount detected"],
      [rule |-> "sameDay", penalty |-> 20,
       indicator |-> "Claim submitted on same day as incident"],
      [rule |-> "description", penalty |-> 15,
       indicator |-> "Insufficient incident description"],
      [rule |-> "weekend", penalty |-> 10,
       indicator |-> "Incident occurred on weekend"],
      [rule |-> "round", penalty |-> 10,
       indicator |-> "Claim amount is a round number"],
      [rule |-> "keywords", penalty |-> 15,
       indicator |-> "Multiple high-risk keywords"]>>

\* the entries of RuleIndicators of the rules that fire, in order
Fired(rules) == SelectSeq(RuleIndicators, LAMBDA x : x.rule \in rules)

IndicatorsOf(fired) ==
    SubSeq([k \in 1..Len(fired) |-> fired[k].indicator], 1, Len(fired))

PenaltiesOf(fired) ==
    SubSeq([k \in 1..Len(fired) |-> fired[k].penalty], 1, Len(fired))

\* Variant of TextAnalysis in which the keyword rule assigns the score
\* instead of adding to it.
TextAnalysisAssigning(claimData, today) ==
    The({[fraudIndicators |-> IndicatorsOf(fired),
          fraudScore |->
              IF \E k \in 1..Len(fired) : fired[k].rule = "keywords"
              THEN 15 ELSE SumOver(PenaltiesOf(fired))] :
            fired \in {Fired(FiredRules(claimData, today))}})

\* indicators and fraudScore after rules 1 to 6
TextAnalysis(claimData, today) ==
    The({[fraudIndicators |-> IndicatorsOf(fired),
          fraudScore |-> SumOver(PenaltiesOf(fired))] :
            fired \in {Fired(FiredRules(claimData, today))}})

\* the legacy rules on the top-level OCR fields, taken when no document
\* validation was run and the extraction carries no error
LegacyValidation(r, claimData) ==
    AddIf(AddIf(r,
              claimData.extractedData.topPolicyNumber # <<>>
              /\ claimData.extractedData.topPolicyNumber
                     # claimData.policyNumber,
              30, "Policy number mismatch with document"),
          claimData.extractedData.topCoverageAmount # 0
          /\ 10 * claimData.claimAmount
                 > 9 * claimData.extractedData.topCoverageAmount,
          20, "Claim near or exceeds coverage limit")

\* The triples (textScore, documentValidationScore, imageScore), with the
\* first two multiples of 5 as the rules and the validator produce them,
\* for which the double-precision sum t*0.35 + d*0.35 + i*0.30 falls just
\* below the exact value k + 0.5, so that Math.round gives k and not k + 1.
FloatTieDown ==
    {<<0, 90, 0>>, <<5, 85, 0>>, <<45, 45, 0>>, <<45, 85, 0>>,
     <<45, 85, 10>>, <<45, 85, 20>>, <<45, 85, 30>>, <<45, 85, 40>>,
     <<45, 85, 50>>, <<45, 85, 60>>, <<85, 5, 0>>, <<85, 45, 0>>,
     <<85, 45, 10>>, <<85, 45, 20>>, <<85, 45, 30>>, <<85, 45, 40>>,
     <<85, 45, 50>>, <<85, 45, 60>>, <<85, 85, 0>>, <<85, 85, 10>>,
     <<90, 0, 0>>}

\* textWeight 0.35, docValWeight 0.35, imageWeight 0.30, in hundredths
textWeight == 35

docValWeight == 35

imageWeight == 30

\* Math.round(textScore * textWeight
\*            + documentValidationScore * docValWeight
\*            + imageScore * imageWeight)
FuseAll(textScore, documentValidationScore, imageScore) ==
    RoundDiv(textWeight * textScore
             + docValWeight * documentValidationScore
             + imageWeight * imageScore, 100)
    - (IF <<textScore, documentValidationScore, imageScore>> \in FloatTieDown
       THEN 1 ELSE 0)

\* Math.round(textScore * 0.5 + documentValidationScore * 0.5)
FuseTextDocument(textScore, documentValidationScore) ==
    RoundDiv(5 * textScore + 5 * documentValidationScore, 10)

\* Variant of FuseTextImage with the weights of the text and document
\* branch.
FuseTextImageEven(textScore, imageScore) ==
    RoundDiv(5 * textScore + 5 * imageScore, 10)

\* Math.round(textScore * 0.6 + imageScore * 0.4)
FuseTextImage(textScore, imageScore) ==
    RoundDiv(6 * textScore + 4 * imageScore, 10)

\* Variant of getFraudRiskLevel with > in place of >= at the upper
\* threshold.
getFraudRiskLevelAbove(score) ==
    IF score > 70 THEN "HIGH" ELSE IF score >= 40 THEN "MEDIUM" ELSE "LOW"

getFraudRiskLevel(score) ==
    IF score >= 70 THEN "HIGH" ELSE IF score >= 40 THEN "MEDIUM" ELSE "LOW"

getRecommendation(score) ==
    IF score >= 70 THEN "MANUAL_REVIEW_REQUIRED"
    ELSE IF score >= 40 THEN "ADDITIONAL_VERIFICATION"
    ELSE "AUTO_APPROVE"

NoImageAnalysis ==
    [present |-> FALSE, imageCount |-> 0, individualResults |-> <<>>,
     combinedFraudScore |-> 0, combinedIndicators |-> <<>>,
     duplicatePairs |-> 0, overallRiskLevel |-> "LOW",
     confidence |-> [num |-> 0, den |-> 1]]

\* the indicators and the text score before the image analysis: the
\* indicators of the document validation, or the legacy rules
Scored(text, claimData) ==
    IF claimData.documentValidation.present
    THEN [text EXCEPT !.fraudIndicators =
                          @ \o claimData.documentValidation.indicators]
    ELSE IF claimData.extractedData.ocr # "error"
    THEN LegacyValidation(text, claimData)
    ELSE text

\* the variant in which the text-only branch applies the text weight of the
\* three-component branch
CombinedScoreTextWeighted(validated, withImages, textScore, documentValidationScore, imageScore) ==
    IF withImages /\ validated
    THEN FuseAll(textScore, documentValidationScore, imageScore)
    ELSE IF validated
    THEN FuseTextDocument(textScore, documentValidationScore)
    ELSE IF withImages
    THEN FuseTextImage(textScore, imageScore)
    ELSE RoundDiv(textWeight * textScore, 100)

\* the weighted combination of the component scores
CombinedScore(validated, withImages, textScore, documentValidationScore, imageScore) ==
    IF withImages /\ validated
    THEN FuseAll(textScore, documentValidationScore, imageScore)
    ELSE IF validated
    THEN FuseTextDocument(textScore, documentValidationScore)
    ELSE IF withImages
    THEN FuseTextImage(textScore, imageScore)
    ELSE textScore

\* the object analyzeClaim returns
AnalysisResult(docVal, withImages, scored, images, textScore, documentValidationScore, imageScore, combinedScore) ==
    [fraudScore     |-> combinedScore,
     indicators     |->
         IF withImages
         THEN scored.fraudIndicators \o images.combinedIndicators
         ELSE Append(scored.fraudIndicators,
                  "No damage photos provided for verification"),
     riskLevel      |-> getFraudRiskLevel(combinedScore),
     recommendation |-> getRecommendation(combinedScore),
     imageAnalysis  |->
         IF withImages
         THEN [present |-> TRUE]
              @@ [x \in (DOMAIN images) \ {"store"} |-> images[x]]
         ELSE NoImageAnalysis,
     documentValidation |->
         [present |-> docVal.present,
          score   |-> documentValidationScore,
          isValid |-> docVal.isValid],
     breakdown |->
         [textAnalysisScore       |-> textScore,
          documentValidationScore |-> documentValidationScore,
          imageAnalysisScore      |-> imageScore,
          weights |-> [text |-> textWeight, docVal |-> docValWeight,
                       image |-> imageWeight]],
     store |-> images.store]

\* analyzeClaim from the combination of the scores onwards
Combine(docVal, withImages, scored, images, textScore, documentValidationScore, imageScore) ==
    The({AnalysisResult(docVal, withImages, scored, images, textScore,
                        documentValidationScore, imageScore, combinedScore) :
            combinedScore \in
                {Max2(0, Min2(100,
                     CombinedScore(docVal.present, withImages, textScore,
                                   documentValidationScore, imageScore)))}})

\* the image analysis of analyzeClaim: run when there are image buffers
ImagesOf(claimData, imageBuffers, store) ==
    IF Len(imageBuffers) > 0
    THEN analyzeMultipleImages(imageBuffers,
             [claimType    |-> claimData.claimType,
              incidentDate |-> claimData.incidentDate,
              policyNumber |-> claimData.policyNumber],
             store)
    ELSE NoImageAnalysis @@ [store |-> store]

\* the result object of analyzeClaim, and the hash store the image analysis
\* leaves behind
analyzeClaim(claimData, imageBuffers, store, today) ==
    The({Combine(claimData.documentValidation, Len(imageBuffers) > 0,
                 scored, images,
                 Min2(scored.fraudScore, 100),
                 IF claimData.documentValidation.present
                 THEN claimData.documentValidation.fraudScore ELSE 0,
                 IF Len(imageBuffers) > 0
                 THEN OrZero(images.combinedFraudScore) ELSE 0) :
            scored \in {Scored(TextAnalysis(claimData, today), claimData)},
            images \in {ImagesOf(claimData, imageBuffers, store)}})

\* decisionEngine.makeDecision, without the explanation text and the time
makeDecision(analysis) ==
    [status         |-> IF analysis.fraudScore >= 70 THEN "FLAGGED"
                        ELSE IF analysis.fraudScore >= 40 THEN "PENDING"
                        ELSE "APPROVED",
     confidence     |-> IF analysis.fraudScore >= 70 THEN 95
                        ELSE IF analysis.fraudScore >= 40 THEN 75
                        ELSE 90,
     fraudScore     |-> analysis.fraudScore,
     riskLevel      |-> analysis.riskLevel,
     recommendation |-> analysis.recommendation]

----------------------------------------------------------------------------
(* Inputs of the validation runs *)

\* policy numbers as OCR may return them ("" = none extracted)
ExtractedPolicyNumbers ==
    {<<"P", "O", "L", "-", "1", "2", "3", "4", "5", "6">>,
     <<"P", "O", "L", "-", "9", "9", "9", "9", "9", "9">>,
     <<>>,
     <<"P", "O", "L", "-", "1", "2", "3", "4", "5", "6", "7">>,
     <<"p", "o", "l", " ", "1", "2", "3", ".", "4", "5", "7">>,
     <<"P", "O", "L", "/", "1", "2", "3", "4", "5", "6">>}

\* policy numbers as typed into the form
SubmittedPolicyNumbers ==
    {<<"P", "O", "L", "1", "2", "3", "4", "5", "6">>,
     <<"P", "O", "L", "-", "1", "2", "3", "4", "5", "6">>,
     <<"P", "O", "L", "_", "1", "2", "3", "4", "5", "6", "8">>,
     <<>>}

\* policy-holder names as OCR may return them ("" = none extracted)
ExtractedNames ==
    {<<"J", "o", "h", "n", " ", "S", "m", "i", "t", "h">>,
     <<"J", "o", "h", "n", " ", "S", "m", "i", "t", "h", " ", "J", "r", ".">>,
     <<"J", "O", "H", "N", " ", " ", "S", "M", "I", "T", "H", " ", "I", "I", "I">>,
     <<"T", "i", "m", " ", "O", "B", "r", "i", "e", "n">>,
     <<"D", "r", ".", " ", "S", "m", "i", "t", "h">>,
     <<"C", "h", "r", "i", "s", "t", "o", "p", "h", "e", "r", " ", "R", "o", "b", "i", "n", "s", "o", "n">>,
     <<"C", "h", "r", "i", "s", "t", "o", "p", "h", "e", " ", "R", "o", "b", "i", "n", "s", "o", "n">>,
     <<>>}

\* claimant names as typed into the form
SubmittedNames ==
    {<<"J", "o", "h", "n", " ", "S", "m", "i", "t", "h">>,
     <<"J", "a", "n", "e", " ", "S", "m", "i", "t", "h">>,
     <<"J", "a", "n", "e", " ", "S", "m", "y", "t", "h">>,
     <<"T", "i", "m", " ", "O", "'", "B", "r", "i", "e", "n">>,
     <<"D", "r", " ", ".", " ", "S", "m", "i", "t", "h">>,
     <<"C", "h", "r", "i", "s", "t", "o", "p", "h", "e", "r", " ", "R", "o", "b", "i", "n", "s", "e", "n">>,
     <<"C", "h", "r", "i", "s", "t", "o", "p", "h", "e", " ", "R", "o", "b", "i", "n", "s", "e", "n">>,
     <<"s", "m", "i", "t", "h", ",", " ", "j", "o", "h", "n", " ", "s", "r">>}

NoLimits ==
    [perOccurrence |-> 0, comprehensive |-> 0, collision |-> 0,
     dwelling |-> 0, personalProperty |-> 0]

\* coverage sections of a policy: [limits, total]
CoverageInputs ==
    {[limits |-> NoLimits, total |-> 0],
     [limits |-> [NoLimits EXCEPT !.collision = 10000], total |-> 0],
     [limits |-> [NoLimits EXCEPT !.collision = 10000,
                                  !.comprehensive = 50000], total |-> 0],
     [limits |-> [NoLimits EXCEPT !.perOccurrence = 20000,
                                  !.comprehensive = 50000], total |-> 5000],
     [limits |-> [NoLimits EXCEPT !.dwelling = 10000,
                                  !.personalProperty = 5000], total |-> 0],
     [limits |-> [NoLimits EXCEPT !.personalProperty = 10000],
      total |-> 50000],
     [limits |-> NoLimits, total |-> 10000]}

ClaimAmounts == {9000, 9001, 10000, 10001, 12000, 60000}

AbsentDate == [k |-> "absent", day |-> 0]

UnparsableDate == [k |-> "unparsable", day |-> 0]

Day(n) == [k |-> "date", day |-> n]

\* the policy window runs from day 10 to day 20 (or is inverted: 10 to 5)
EffectiveDates == {AbsentDate, UnparsableDate, Day(10)}

ExpirationDates == {AbsentDate, UnparsableDate, Day(20), Day(5)}

IncidentDates ==
    {AbsentDate, UnparsableDate, Day(5), Day(9), Day(10), Day(15), Day(20),
     Day(21)}

Authenticities == {"absent", "authentic", "suspicious", "forged"}

\* keyword-match counts per vocabulary seen by identifyDocumentType
MaxKeywordMatches == 3

KeywordScores == [1..4 -> 0..MaxKeywordMatches]

NoDocumentType == [present |-> FALSE, type |-> "unknown", confidence |-> 0]

DocumentTypes ==
    {identifyDocumentType(sc) : sc \in KeywordScores} \cup {NoDocumentType}

OcrConfidences == {0, 49, 50, 80}

\* One section of the document takes every input of its set while the
\* other sections take a complying and a violating input.
Sections == {"policy", "name", "coverage", "dates", "authenticity", "type"}

Pick(full, small, section, focus) == IF section = focus THEN full ELSE small

BuildExtracted(ocr, place, pn, nm, cov, eff, exp, auth, dt, conf) ==
    [ocr               |-> ocr,
     policyNumber      |-> IF place # "top" THEN pn ELSE <<>>,
     topPolicyNumber   |-> IF place = "top" THEN pn ELSE <<>>,
     policyHolder      |-> IF place = "structured" THEN nm ELSE <<>>,
     insuredName       |-> IF place = "insured" THEN nm ELSE <<>>,
     topPolicyHolder   |-> IF place = "top" THEN nm ELSE <<>>,
     coverageLimits    |-> cov.limits,
     coverageAmount    |-> IF place = "top" THEN 0 ELSE cov.total,
     topCoverageAmount |-> IF place = "top" THEN cov.total ELSE 0,
     effectiveDate     |-> eff,
     expirationDate    |-> exp,
     authenticity      |-> auth,
     documentType      |-> dt,
     overallConfidence |-> conf]

BuildForm(pn, nm, amount, incident) ==
    [policyNumber |-> pn, claimantName |-> nm, claimAmount |-> amount,
     incidentDate |-> incident]

\* where the OCR result carries policy number and holder name
Places == {"structured", "insured", "top"}

ScenarioC == [extracted |-> <<"P", "O", "L", "-", "1", "2", "3", "4", "5", "6">>,
              submitted |-> <<"P", "O", "L", "1", "2", "3", "4", "5", "6">>]

ScenarioD == [extracted |-> <<"P", "O", "L", "-", "9", "9", "9", "9", "9", "9">>,
              submitted |-> <<"P", "O", "L", "-", "1", "2", "3", "4", "5", "6">>]

JohnSmith == <<"J", "o", "h", "n", " ", "S", "m", "i", "t", "h">>

JaneSmyth == <<"J", "a", "n", "e", " ", "S", "m", "y", "t", "h">>

PolicyTypeDoc == [present |-> TRUE, type |-> "policy", confidence |-> 100]

ValidationInputs(focus) ==
    [place     : IF focus \in {"policy", "name"} THEN Places
                 ELSE {"structured"},
     ocr       : IF focus = "authenticity" THEN {"ok", "error", "null"}
                 ELSE {"ok"},
     pnE       : Pick(ExtractedPolicyNumbers,
                      {ScenarioC.extracted, ScenarioD.extracted},
                      "policy", focus),
     pnS       : Pick(SubmittedPolicyNumbers, {ScenarioD.submitted},
                      "policy", focus),
     nmE       : Pick(ExtractedNames, {JohnSmith}, "name", focus),
     nmS       : Pick(SubmittedNames, {JohnSmith, JaneSmyth}, "name", focus),
     cov       : Pick(CoverageInputs,
                      {[limits |-> [NoLimits EXCEPT !.collision = 10000],
                        total |-> 0]}, "coverage", focus),
     amount    : Pick(ClaimAmounts, {9000, 12000}, "coverage", focus),
     eff       : Pick(EffectiveDates, {Day(10)}, "dates", focus),
     exp       : Pick(ExpirationDates, {Day(20)}, "dates", focus),
     incident  : Pick(IncidentDates, {Day(15), Day(5)}, "dates", focus),
     auth      : Pick(Authenticities, {"authentic", "forged"},
                      "authenticity", focus),
     conf      : Pick(OcrConfidences, {80}, "authenticity", focus),
     dt        : Pick(DocumentTypes, {PolicyTypeDoc}, "type", focus)]

\* what extractFromDocument returns from its catch block ("error"), and a
\* missing extraction ("null"): no structured data, no authenticity
FailedExtraction(ocr) ==
    BuildExtracted(ocr, "structured", <<>>, <<>>,
                   [limits |-> NoLimits, total |-> 0], AbsentDate, AbsentDate,
                   "absent",
                   IF ocr = "error"
                   THEN [present |-> TRUE, type |-> "unknown", confidence |-> 0]
                   ELSE NoDocumentType,
                   0)

ExtractedOf(i) ==
    IF i.ocr = "ok"
    THEN BuildExtracted(i.ocr, i.place, i.pnE, i.nmE, i.cov, i.eff, i.exp,
                        i.auth, i.dt, i.conf)
    ELSE FailedExtraction(i.ocr)

FormOf(i) == BuildForm(i.pnS, i.nmS, i.amount, i.incident)

----------------------------------------------------------------------------
(* Runs of validateDocumentData on one extracted document and one form *)

\* values of the variables a run does not use or has not yet assigned
NoSubmission == [claimType |-> ClaimType(<<>>), description |-> <<>>]

EmptyStore == [c \in {} |-> <<>>]

NoImageResult ==
    [fraudIndicators |-> <<>>, fraudScore |-> 0, error |-> FALSE,
     confidence |-> 0, riskLevel |-> "unset", hash |-> <<>>,
     duplicatesFound |-> FALSE, detectedObjects |-> <<>>]

NoFraudAnalysis ==
    [fraudScore |-> 0, indicators |-> <<>>, riskLevel |-> "unset",
     recommendation |-> "unset", imageAnalysis |-> NoImageAnalysis,
     documentValidation |-> [present |-> FALSE, score |-> 0,
                             isValid |-> TRUE],
     breakdown |-> [textAnalysisScore |-> 0, documentValidationScore |-> 0,
                    imageAnalysisScore |-> 0,
                    weights |-> [text |-> textWeight, docVal |-> docValWeight,
                                 image |-> imageWeight]]]

NoDecision ==
    [status |-> "unset", confidence |-> 0, fraudScore |-> 0,
     riskLevel |-> "unset", recommendation |-> "unset"]

NoPrevious ==
    [fraudAnalysis |-> NoFraudAnalysis,
     validationResults |-> NewValidationResults, fired |-> {}]

NoFiles == [name \in {} |-> <<>>]

Idle ==
    /\ imageResult = NoImageResult
    /\ imageAnalysisResults = NoImageAnalysis
    /\ fraudAnalysis = NoFraudAnalysis
    /\ decision = NoDecision
    /\ previous = NoPrevious
    /\ args = <<>>
    /\ returned = <<>>
    /\ analyses = <<>>
    /\ tempFiles = NoFiles

ValidateInit ==
    /\ pc = "validate"
    /\ \E focus \in Sections : \E i \in ValidationInputs(focus) :
          /\ extractedData = ExtractedOf(i)
          /\ formData = FormOf(i)
    /\ validationResults = NewValidationResults
    /\ submission = NoSubmission
    /\ damagePhotos = <<>>
    /\ hashStore = EmptyStore
    /\ clock = 20
    /\ Idle

Validate ==
    /\ pc = "validate"
    /\ validationResults' = validateDocumentData(extractedData, formData)
    /\ pc' = "validated"
    /\ UNCHANGED <<extractedData, formData, submission, damagePhotos,
                   hashStore, clock, imageResult, imageAnalysisResults,
                   fraudAnalysis, decision, previous>>
    /\ UNCHANGED otherVars

ValidateNext == Validate

SpecValidate == ValidateInit /\ [][ValidateNext]_vars

----------------------------------------------------------------------------
(* Properties of validateDocumentData (checked under SpecValidate) *)

Range(seq) == {seq[k] : k \in 1..Len(seq)}

Validated == pc = "validated"

ValidatedOk == Validated /\ extractedData.ocr = "ok"

\* the form's incident date precedes / follows a parsable policy date
IncidentBeforeEffective ==
    /\ formData.incidentDate.k = "date"
    /\ extractedData.effectiveDate.k = "date"
    /\ formData.incidentDate.day < extractedData.effectiveDate.day

IncidentAfterExpiration ==
    /\ formData.incidentDate.k = "date"
    /\ extractedData.expirationDate.k = "date"
    /\ formData.incidentDate.day > extractedData.expirationDate.day

TypeWarning == "Uploaded document appears not to be a policy document"

\* no check other than those that add the indicators of `own` scored
OnlyPenalties(own) ==
    /\ Range(validationResults.indicators) \subseteq own
    /\ TypeWarning \notin Range(validationResults.warnings)

\* C5: isValid is false exactly when the policy number or the name is a
\* mismatch, the claim amount exceeds the selected limit, the incident lies
\* outside the policy window, or the authenticity verdict is negative.
C5_IsValidIff ==
    Validated =>
        (validationResults.isValid = FALSE <=>
            /\ extractedData.ocr = "ok"
            /\ \/ validationResults.policyStatus = "mismatch"
               \/ validationResults.nameStatus = "mismatch"
               \/ /\ validationResults.coverage > 0
                  /\ formData.claimAmount > validationResults.coverage
               \/ IncidentBeforeEffective
               \/ IncidentAfterExpiration
               \/ extractedData.authenticity = "forged")

\* C5 witness: a validated document that is invalid only because the claim
\* exceeds the coverage, next to probable matches and warnings.
C5_Witness ==
    /\ Validated
    /\ validationResults.isValid = FALSE
    /\ validationResults.exceeds
    /\ validationResults.policyStatus = "match"
    /\ validationResults.nameStatus = "match"
    /\ validationResults.warnings # <<>>

\* the policy numbers as the claim compares them
ExtractedPolicyNumber ==
    OrStr(extractedData.policyNumber, extractedData.topPolicyNumber)

\* Policy-number normalisation as the claim words it: whitespace and
\* punctuation stripped (letters and digits remain), uppercased.
PolicyKey(pn) ==
    ToUpperCase(SelectSeq(pn, LAMBDA c : IsUpper(c) \/ IsLower(c)
                                          \/ c \in Digits))

PolicyIndicators ==
    {"No policy number found in uploaded document", "Policy number mismatch"}

\* C6: policy numbers are compared after normalisation (whitespace and
\* punctuation stripped, uppercased): equal forms match without penalty,
\* similarity >= 0.9 is a probable match with a warning, below 0.9 is a
\* mismatch (penalty 30, invalid), and a missing extracted number is
\* not_found (penalty 15, not invalidating).
C6_PolicyNumber ==
    ValidatedOk =>
        LET r   == validationResults
            nE  == PolicyKey(ExtractedPolicyNumber)
            nS  == PolicyKey(formData.policyNumber)
            sim == stringSimilarity(nE, nS)
            ind == Range(r.indicators) \cap PolicyIndicators
        IN  /\ ExtractedPolicyNumber = <<>> =>
                /\ r.policyStatus = "not_found"
                /\ ind = {"No policy number found in uploaded document"}
                /\ OnlyPenalties(ind) => r.fraudScore = 15 /\ r.isValid
            /\ ExtractedPolicyNumber # <<>> /\ nE = nS =>
                /\ r.policyStatus = "match"
                /\ ind = {}
                /\ OnlyPenalties({}) => r.fraudScore = 0
            /\ ExtractedPolicyNumber # <<>> /\ nE # nS
                 /\ sim.num * 10 >= 9 * sim.den =>
                /\ r.policyStatus = "probable_match"
                /\ ind = {}
                /\ "Policy number close match - possible OCR error"
                       \in Range(r.warnings)
                /\ OnlyPenalties({}) => r.fraudScore = 0 /\ r.isValid
            /\ ExtractedPolicyNumber # <<>> /\ nE # nS
                 /\ sim.num * 10 < 9 * sim.den =>
                /\ r.policyStatus = "mismatch"
                /\ ind = {"Policy number mismatch"}
                /\ r.isValid = FALSE
                /\ r.fraudScore >= 30
                /\ OnlyPenalties(ind) => r.fraudScore = 30

ExtractedName ==
    OrStr(extractedData.policyHolder,
          OrStr(extractedData.insuredName, extractedData.topPolicyHolder))

\* Name normalisation as the claim words it: lowercased, punctuation
\* stripped, whitespace collapsed, one generational suffix removed.
IsPunctuation(c) == ~(IsWordChar(c) \/ IsSpace(c))

GenerationalSuffixes ==
    {<<"j","r">>, <<"s","r">>, <<"i","i">>, <<"i","i","i">>}

ClaimedNormalName(name) ==
    LET plain == Trim(CollapseWhitespace(
                     SelectSeq(ToLowerCase(name),
                               LAMBDA c : ~IsPunctuation(c))))
    IN  IF \E sfx \in GenerationalSuffixes : EndsWithWord(plain, sfx)
        THEN Trim(DropLast(plain,
                 Len(CHOOSE sfx \in GenerationalSuffixes :
                        /\ EndsWithWord(plain, sfx)
                        /\ \A t \in GenerationalSuffixes :
                              EndsWithWord(plain, t) => Len(t) <= Len(sfx))))
        ELSE plain

\* C7: names are compared after normalisation (case, whitespace,
\* punctuation, generational suffix): similarity >= 0.95 is a match,
\* 0.70 <= similarity < 0.95 a probable match with a warning and no
\* penalty, below 0.70 a mismatch with penalty 20 and isValid = false; names
\* that differ only by suffix, case, punctuation or spacing are a match.
C7_ClaimantName ==
    ValidatedOk /\ ExtractedName # <<>> =>
        LET r   == validationResults
            sim == stringSimilarity(ClaimedNormalName(ExtractedName),
                                    ClaimedNormalName(formData.claimantName))
        IN  /\ sim.num * 100 >= 95 * sim.den =>
                /\ r.nameStatus = "match"
                /\ "Name mismatch" \notin Range(r.indicators)
            /\ sim.num * 100 < 95 * sim.den /\ sim.num * 10 >= 7 * sim.den =>
                /\ r.nameStatus = "probable_match"
                /\ "Name similarity" \in Range(r.warnings)
                /\ "Name mismatch" \notin Range(r.indicators)
            /\ sim.num * 10 < 7 * sim.den =>
                /\ r.nameStatus = "mismatch"
                /\ "Name mismatch" \in Range(r.indicators)
                /\ r.isValid = FALSE
                /\ r.fraudScore >= 20

\* the limit the claim says is used: the first figure available in the
\* order per-occurrence, comprehensive, collision, dwelling,
\* personal-property, generic total
ClaimedLimit ==
    LET l == extractedData.coverageLimits
        figures == <<l.perOccurrence, l.comprehensive, l.collision,
                     l.dwelling, l.personalProperty,
                     extractedData.coverageAmount,
                     extractedData.topCoverageAmount>>
        found == {k \in 1..Len(figures) : figures[k] > 0}
    IN  IF found = {} THEN 0
        ELSE figures[CHOOSE k \in found : \A m \in found : k <= m]

CoverageIndicator == "Claim amount exceeds coverage limit"

\* C8: the most specific limit is used; an amount above it adds 25, sets
\* exceeds and invalidates; an amount above 90% of it only warns; no
\* coverage figure gives not_found without penalty or invalidation.
C8_Coverage ==
    ValidatedOk =>
        LET r      == validationResults
            limit  == ClaimedLimit
            amount == formData.claimAmount
            near   == "Claim amount is very close to coverage limit"
        IN  /\ r.coverage = limit
            /\ limit > 0 /\ amount > limit =>
                /\ r.exceeds /\ r.coverageStatus = "exceeds_coverage"
                /\ CoverageIndicator \in Range(r.indicators)
                /\ r.isValid = FALSE
                /\ r.fraudScore >= 25
                /\ OnlyPenalties({CoverageIndicator}) => r.fraudScore = 25
            /\ limit > 0 /\ amount <= limit /\ 10 * amount > 9 * limit =>
                /\ ~r.exceeds /\ r.coverageStatus = "near_limit"
                /\ near \in Range(r.warnings)
                /\ CoverageIndicator \notin Range(r.indicators)
                /\ OnlyPenalties({}) => r.fraudScore = 0 /\ r.isValid
            /\ limit > 0 /\ 10 * amount <= 9 * limit =>
                /\ ~r.exceeds /\ r.coverageStatus = "within_coverage"
                /\ near \notin Range(r.warnings)
                /\ CoverageIndicator \notin Range(r.indicators)
                /\ OnlyPenalties({}) => r.fraudScore = 0 /\ r.isValid
            /\ limit = 0 =>
                /\ ~r.exceeds /\ r.coverageStatus = "not_found"
                /\ CoverageIndicator \notin Range(r.indicators)
                /\ OnlyPenalties({}) => r.fraudScore = 0 /\ r.isValid

\* C8 witness: scenario E (claim 12000, collision limit 10000) with a
\* policy that carries no more specific limit, and nothing else wrong.
C8_Witness ==
    /\ ValidatedOk
    /\ formData.claimAmount = 12000
    /\ extractedData.coverageLimits.collision = 10000
    /\ validationResults.coverageType = "collision"
    /\ validationResults.exceeds
    /\ validationResults.fraudScore = 25
    /\ validationResults.isValid = FALSE

BeforeIndicator == "Incident date is before policy effective date"

AfterIndicator == "Incident date is after policy expiration"

\* C9: an incident before a parsable effective date adds 20 and
\* invalidates; an incident after a parsable expiration date adds 25 and
\* invalidates; inside the window, or with a missing or unparsable policy
\* date, no penalty is added.
C9_PolicyDates ==
    ValidatedOk =>
        LET r   == validationResults
            ind == Range(r.indicators) \cap {BeforeIndicator, AfterIndicator}
        IN  /\ BeforeIndicator \in ind <=> IncidentBeforeEffective
            /\ AfterIndicator \in ind <=> IncidentAfterExpiration
            /\ ind # {} => r.isValid = FALSE
            /\ OnlyPenalties(ind) =>
                /\ r.fraudScore =
                      (IF IncidentBeforeEffective THEN 20 ELSE 0)
                    + (IF IncidentAfterExpiration THEN 25 ELSE 0)
                /\ ind = {} => r.isValid

\* C9 witness: an incident after the expiration date, nothing else wrong.
C9_Witness ==
    /\ ValidatedOk
    /\ IncidentAfterExpiration /\ ~IncidentBeforeEffective
    /\ validationResults.datesStatus = "incident_after_expiration"
    /\ validationResults.fraudScore = 25
    /\ validationResults.isValid = FALSE

\* C10: the document-type penalty (10) and its warning are added only when
\* the classifier reports a type other than policy with high confidence on
\* its own scale (a percentage: above 70); a policy classification or a
\* low-confidence classification adds nothing.
C10_DocumentType ==
    ValidatedOk =>
        (TypeWarning \in Range(validationResults.warnings) =>
            /\ extractedData.documentType.present
            /\ extractedData.documentType.type # "policy"
            /\ extractedData.documentType.confidence > 70)

----------------------------------------------------------------------------
(* Inputs of the image runs and of the submissions *)

CameraPhoto ==
    [decodable |-> TRUE, exifParses |-> TRUE, software |-> "camera",
     captureDay |-> 15, cameraMake |-> TRUE, gps |-> FALSE,
     width |-> 1600, height |-> 1200, blurry |-> FALSE,
     lowContrast |-> FALSE, recompressed |-> FALSE, lighting |-> FALSE,
     ela |-> FALSE, phash |-> <<"a", "3", "f", "0", "9", "c", "1", "e">>,
     red |-> 120, green |-> 115, blue |-> 110, edges |-> FALSE,
     failing |-> {}, readable |-> TRUE,
     exposure |-> 30, uniformFooter |-> FALSE]

\* no EXIF block, 300 x 200 pixels
Screenshot ==
    [CameraPhoto EXCEPT !.exifParses = FALSE, !.captureDay = 0,
                        !.cameraMake = FALSE, !.width = 300, !.height = 200,
                        !.phash = <<"0", "0", "f", "f", "0", "0", "f", "f">>]

\* saved by an editing tool, metadata stripped, every pixel check positive,
\* 1920 x 1080
EditedPhoto ==
    [CameraPhoto EXCEPT !.software = "editor", !.captureDay = 0,
                        !.cameraMake = FALSE, !.width = 1920,
                        !.height = 1080, !.blurry = TRUE,
                        !.lowContrast = TRUE, !.recompressed = TRUE,
                        !.lighting = TRUE, !.ela = TRUE,
                        !.phash = <<"5", "5", "a", "a", "5", "5", "a", "a">>]

\* the edited photo saved again: the hash differs in two digits
EditedCopy ==
    [EditedPhoto EXCEPT !.phash = <<"5", "5", "a", "a", "5", "5", "b", "b">>]

\* bytes that neither sharp, ExifParser nor imghash can read
CorruptFile ==
    [CameraPhoto EXCEPT !.decodable = FALSE, !.exifParses = FALSE,
                        !.captureDay = 0, !.cameraMake = FALSE]

\* taken 35 days before day 15
OldPhoto == [CameraPhoto EXCEPT !.captureDay = -20,
                                !.phash = <<"1", "2", "3", "4", "5", "6", "7", "8">>]

\* a blue sky over a flooded street, by a camera with GPS
OutdoorPhoto ==
    [CameraPhoto EXCEPT !.gps = TRUE, !.red = 90, !.green = 140,
                        !.blue = 200, !.edges = TRUE,
                        !.phash = <<"f", "e", "d", "c", "b", "a", "9", "8">>]

\* close to a photo another claim has already filed
ReusedPhoto ==
    [CameraPhoto EXCEPT !.phash = <<"7", "7", "7", "7", "0", "0", "0", "1">>]

Photos ==
    {CameraPhoto, Screenshot, EditedPhoto, EditedCopy, CorruptFile,
     OldPhoto, OutdoorPhoto, ReusedPhoto}

\* image lists of a call: up to MaxImages photos
MaxImages == 2

RECURSIVE ListsUpTo(_, _)
ListsUpTo(set, n) ==
    IF n = 0 THEN {<<>>}
    ELSE LET shorter == ListsUpTo(set, n - 1)
         IN  shorter \cup {Append(l, x) : l \in shorter, x \in set}

OtherClaim == <<"P", "O", "L", "-", "7", "7", "7">>

SeededStore ==
    [c \in {OtherClaim} |-> <<<<"7", "7", "7", "7", "0", "0", "0", "0">>>>]

\* a registry holding, under a third claim, a hash that differs from the
\* edited photo's in two digits and eight bits
DistantClaim == <<"P", "O", "L", "-", "5", "5", "5">>

DistantStore ==
    [c \in {DistantClaim} |-> <<<<"5", "5", "a", "a", "5", "5", "5", "5">>>>]

Auto == ClaimType(<<"a", "u", "t", "o">>)

Home == ClaimType(<<"H", "o", "m", "e">>)

Health == ClaimType(<<"h", "e", "a", "l", "t", "h">>)

Constructor == ClaimType(<<"c", "o", "n", "s", "t", "r", "u", "c", "t", "o", "r">>)

ClaimTypes ==
    {Auto, Home, Health, Constructor, ClaimType(<<>>), NonStringClaimType}

----------------------------------------------------------------------------
(* Direct calls of analyzeImage and analyzeMultipleImages *)

ImagesInit ==
    /\ pc = "images"
    /\ damagePhotos \in ListsUpTo(Photos, MaxImages)
    /\ submission \in [claimType : ClaimTypes, description : {<<>>}]
    /\ formData \in {BuildForm(pn, <<>>, 0, incident) :
                        pn \in {ScenarioD.submitted, <<>>},
                        incident \in {AbsentDate, UnparsableDate, Day(15)}}
    /\ hashStore \in {EmptyStore, SeededStore, DistantStore}
    /\ extractedData = FailedExtraction("null")
    /\ validationResults = NewValidationResults
    /\ clock = 20
    /\ Idle

ImageClaimData ==
    [claimType    |-> submission.claimType,
     incidentDate |-> formData.incidentDate,
     policyNumber |-> formData.policyNumber]

\* analyzeImage(damagePhotos[0], claimData)
AnalyzeImage ==
    /\ pc = "images"
    /\ Len(damagePhotos) > 0
    /\ \E out \in {analyzeImage(Head(damagePhotos), ImageClaimData,
                               hashStore)} :
           /\ imageResult' = [f \in (DOMAIN out) \ {"store"} |-> out[f]]
           /\ hashStore' = out.store
    /\ pc' = "image analyzed"
    /\ UNCHANGED <<extractedData, formData, validationResults, submission,
                   damagePhotos, clock, imageAnalysisResults, fraudAnalysis,
                   decision, previous>>
    /\ UNCHANGED otherVars

\* analyzeMultipleImages(damagePhotos, claimData)
AnalyzeMultipleImages ==
    /\ pc = "images"
    /\ \E out \in {analyzeMultipleImages(damagePhotos, ImageClaimData,
                                        hashStore)} :
           /\ imageAnalysisResults' =
                  [present |-> TRUE]
                  @@ [f \in (DOMAIN out) \ {"store"} |-> out[f]]
           /\ hashStore' = out.store
    /\ pc' = "images analyzed"
    /\ UNCHANGED <<extractedData, formData, validationResults, submission,
                   damagePhotos, clock, imageResult, fraudAnalysis, decision,
                   previous>>
    /\ UNCHANGED otherVars

ImagesNext == AnalyzeImage \/ AnalyzeMultipleImages

SpecImages == ImagesInit /\ [][ImagesNext]_vars

----------------------------------------------------------------------------
(* POST /submit: validation, analysis and decision of a submission, and a  *)
(* second submission that triggers one more behavioral rule                *)

ShortPlain ==
    <<"M", "i", "n", "o", "r", " ", "d", "e", "n", "t", " ", "o", "n",
      " ", "d", "o", "o", "r">>

ShortKeywords ==
    <<"C", "a", "r", " ", "S", "T", "O", "L", "E", "N", ",", " ", "t",
      "h", "e", "n", " ", "f", "i", "r", "e">>

FiftyPlain ==
    <<"T", "h", "e", " ", "c", "a", "r", " ", "w", "a", "s", " ", "h",
      "i", "t", " ", "f", "r", "o", "m", " ", "b", "e", "h", "i", "n",
      "d", " ", "w", "h", "i", "l", "e", " ", "i", "t", " ", "w", "a",
      "s", " ", "p", "a", "r", "k", "e", "d", " ", "o", "k">>

LongKeywords ==
    <<"T", "o", "t", "a", "l", " ", "l", "o", "s", "s", ":", " ", "t",
      "h", "e", " ", "v", "e", "h", "i", "c", "l", "e", " ", "w", "a",
      "s", " ", "c", "o", "m", "p", "l", "e", "t", "e", "l", "y", " ",
      "d", "e", "s", "t", "r", "o", "y", "e", "d", " ", "i", "n", " ",
      "t", "h", "e", " ", "a", "c", "c", "i", "d", "e", "n", "t">>

Descriptions == {<<>>, ShortPlain, ShortKeywords, FiftyPlain, LongKeywords}

SubmittedAmounts == {9000, 9500, 60000, 60500}

SubmittedIncidents == {UnparsableDate, Day(15), Day(16), Day(20)}

Clocks == {16, 20}

\* the policy document of a submission and the form fields compared to it
Documents ==
    LET Doc(ocr, pn, nm, limit, exp, auth, dt) ==
            [extracted |->
                 IF ocr = "ok"
                 THEN BuildExtracted("ok", "structured", pn.extracted,
                          JohnSmith,
                          [limits |-> [NoLimits EXCEPT !.collision = limit],
                           total |-> 0],
                          Day(10), exp, auth, dt, 80)
                 ELSE FailedExtraction(ocr),
             policyNumber |-> pn.submitted,
             claimantName |-> nm]
        Estimate == [present |-> TRUE, type |-> "repairEstimate",
                     confidence |-> 60]
    IN  {Doc("null", ScenarioC, JohnSmith, 0, AbsentDate, "absent",
             PolicyTypeDoc),
         Doc("error", ScenarioC, JohnSmith, 0, AbsentDate, "absent",
             PolicyTypeDoc),
         Doc("ok", ScenarioC, JohnSmith, 0, Day(20), "authentic",
             PolicyTypeDoc),
         Doc("ok", ScenarioD, JohnSmith, 0, AbsentDate, "authentic",
             PolicyTypeDoc),
         Doc("ok", ScenarioD, JaneSmyth, 0, AbsentDate, "forged",
             PolicyTypeDoc),
         Doc("ok", ScenarioD, JohnSmith, 10000, AbsentDate, "forged",
             PolicyTypeDoc),
         Doc("ok", ScenarioC, JaneSmyth, 10000, Day(16), "authentic",
             PolicyTypeDoc),
         Doc("ok", ScenarioC, JohnSmith, 0, Day(20), "forged", Estimate)}

\* the photos of a submission, its claim type and the registry it meets
PhotoSets ==
    LET Set(photos, claimType, store) ==
            [photos |-> photos, claimType |-> claimType, store |-> store]
    IN  {Set(<<>>, Auto, EmptyStore),
         Set(<<CameraPhoto>>, Auto, EmptyStore),
         Set(<<CorruptFile>>, Auto, EmptyStore),
         Set(<<Screenshot>>, Home, EmptyStore),
         Set(<<EditedPhoto, CameraPhoto>>, Auto, EmptyStore),
         Set(<<EditedPhoto, EditedCopy>>, Auto, EmptyStore),
         Set(<<ReusedPhoto, OutdoorPhoto>>, Home, SeededStore),
         Set(<<EditedPhoto>>, Constructor, SeededStore)}

Init ==
    /\ pc = "submit"
    /\ \E doc \in Documents, set \in PhotoSets :
          /\ extractedData = doc.extracted
          /\ formData \in {BuildForm(doc.policyNumber, doc.claimantName,
                                     amount, incident) :
                              amount \in SubmittedAmounts,
                              incident \in SubmittedIncidents}
          /\ submission \in [claimType : {set.claimType},
                             description : Descriptions]
          /\ damagePhotos = set.photos
          /\ hashStore = set.store
    /\ clock \in Clocks
    /\ validationResults = NewValidationResults
    /\ Idle

\* the claimData object the handler hands to analyzeClaim
ClaimDataOf(e, f, sub, documentValidationResult) ==
    [policyNumber       |-> f.policyNumber,
     claimAmount        |-> f.claimAmount,
     incidentDate       |-> f.incidentDate,
     claimType          |-> sub.claimType,
     description        |-> sub.description,
     extractedData      |-> e,
     documentValidation |-> documentValidationResult]

\* what the handler keeps of a request
Decide(results, analysis) ==
    [validationResults |-> results,
     fraudAnalysis |-> [x \in (DOMAIN analysis) \ {"store"} |-> analysis[x]],
     decision      |-> makeDecision(analysis),
     store         |-> analysis.store]

\* the analysis and the decision, given the validation results
Analyze(e, f, sub, photos, store, today, results) ==
    The({Decide(results, analysis) :
            analysis \in
                {analyzeClaim(
                     ClaimDataOf(e, f, sub,
                         IF e.ocr = "ok" THEN DocumentValidationOf(results)
                         ELSE NoDocumentValidation),
                     photos, store, today)}})

\* the handler of POST /submit up to the decision
SubmitClaim(e, f, sub, photos, store, today) ==
    The({Analyze(e, f, sub, photos, store, today, results) :
            results \in {IF e.ocr = "ok" THEN validateDocumentData(e, f)
                         ELSE NewValidationResults}})

Submit ==
    /\ pc = "submit"
    /\ \E out \in {SubmitClaim(extractedData, formData, submission,
                              damagePhotos, hashStore, clock)} :
           /\ validationResults' = out.validationResults
           /\ fraudAnalysis' = out.fraudAnalysis
           /\ decision' = out.decision
           /\ hashStore' = out.store
    /\ pc' = "decided"
    /\ UNCHANGED <<extractedData, formData, submission, damagePhotos, clock,
                   imageResult, imageAnalysisResults, previous>>
    /\ UNCHANGED otherVars

CurrentFired ==
    FiredRules(ClaimDataOf(extractedData, formData, submission,
                           NoDocumentValidation), clock)

\* the text fields of the form with one of them replaced
TextVariants ==
    {[amount |-> a, incident |-> formData.incidentDate,
      description |-> submission.description] : a \in SubmittedAmounts}
    \cup {[amount |-> formData.claimAmount, incident |-> i,
           description |-> submission.description] :
             i \in SubmittedIncidents}
    \cup {[amount |-> formData.claimAmount,
           incident |-> formData.incidentDate, description |-> d] :
             d \in Descriptions}

\* the same claimant submits the claim again, one text field changed so
\* that exactly one more behavioral rule fires
Resubmit ==
    /\ pc = "decided"
    /\ \E before \in {CurrentFired} :
       \E v \in TextVariants :
       \E f \in {[formData EXCEPT !.claimAmount = v.amount,
                                   !.incidentDate = v.incident]},
          sub \in {[submission EXCEPT !.description = v.description]} :
       \E fired \in {FiredRules(ClaimDataOf(extractedData, f, sub,
                                            NoDocumentValidation), clock)} :
          /\ before \subseteq fired
          /\ Cardinality(fired \ before) = 1
          /\ \E out \in {SubmitClaim(extractedData, f, sub, damagePhotos,
                                     hashStore, clock)} :
                /\ formData' = f
                /\ submission' = sub
                /\ previous' = [fraudAnalysis |-> fraudAnalysis,
                                validationResults |-> validationResults,
                                fired |-> before]
                /\ validationResults' = out.validationResults
                /\ fraudAnalysis' = out.fraudAnalysis
                /\ decision' = out.decision
                /\ hashStore' = out.store
    /\ pc' = "resubmitted"
    /\ UNCHANGED <<extractedData, damagePhotos, clock, imageResult,
                   imageAnalysisResults>>
    /\ UNCHANGED otherVars

Next == Submit \/ Resubmit

Spec == Init /\ [][Next]_vars

----------------------------------------------------------------------------
(* Properties of the scores, the fusion and the decision *)

InRange(score) == score \in 0..100

ScoresOf(results) == {results[k].fraudScore : k \in 1..Len(results)}

\* C1: every score the core produces lies in [0,100]: the per-image score
\* of analyzeImage on both of its paths, the combined score of
\* analyzeMultipleImages for any list (the empty one included), the score of
\* validateDocumentData and the fused score of analyzeClaim, which is an
\* integer.
C1_ScoresInRange ==
    /\ InRange(imageResult.fraudScore)
    /\ InRange(imageAnalysisResults.combinedFraudScore)
    /\ \A score \in ScoresOf(imageAnalysisResults.individualResults)
                    \cup ScoresOf(fraudAnalysis.imageAnalysis.individualResults) :
          InRange(score)
    /\ InRange(fraudAnalysis.imageAnalysis.combinedFraudScore)
    /\ InRange(validationResults.fraudScore)
    /\ InRange(fraudAnalysis.fraudScore)

Decided == pc \in {"decided", "resubmitted"}

DocumentSignal == extractedData.ocr = "ok"

ImageSignal == Len(damagePhotos) > 0

\* fused is an integer nearest to num / den
Rounds(fused, num, den) ==
    /\ 2 * den * fused <= 2 * num + den
    /\ 2 * num - den <= 2 * den * fused

\* C2: the fused score is the weighted sum of the components that are
\* present, rounded to a nearest integer: 0.35/0.35/0.30 for text, document
\* and image, 0.5/0.5 for text and document, 0.6/0.4 for text and image,
\* and the text score itself when it is alone; each weight set sums to 1,
\* each component lies in [0,100] and so does the fused score.
C2_Fusion ==
    Decided =>
        LET b     == fraudAnalysis.breakdown
            t     == b.textAnalysisScore
            d     == b.documentValidationScore
            i     == b.imageAnalysisScore
            fused == fraudAnalysis.fraudScore
        IN  /\ textWeight + docValWeight + imageWeight = 100
            /\ InRange(t) /\ InRange(d) /\ InRange(i) /\ InRange(fused)
            /\ t = Min2(100, TextAnalysis(
                       ClaimDataOf(extractedData, formData, submission,
                                   NoDocumentValidation), clock).fraudScore)
            /\ d = IF DocumentSignal THEN validationResults.fraudScore ELSE 0
            /\ i = IF ImageSignal
                   THEN fraudAnalysis.imageAnalysis.combinedFraudScore ELSE 0
            /\ DocumentSignal /\ ImageSignal =>
                   Rounds(fused, 35 * t + 35 * d + 30 * i, 100)
            /\ DocumentSignal /\ ~ImageSignal =>
                   Rounds(fused, 5 * t + 5 * d, 10)
            /\ ~DocumentSignal /\ ImageSignal =>
                   Rounds(fused, 6 * t + 4 * i, 10)
            /\ ~DocumentSignal /\ ~ImageSignal => fused = t

\* C2 witness: the three signals present with scores 45, 85 and 0, whose
\* weighted sum 45.5 lies halfway between two integers.
C2_Witness ==
    /\ pc = "decided"
    /\ DocumentSignal /\ ImageSignal
    /\ fraudAnalysis.breakdown.textAnalysisScore = 45
    /\ fraudAnalysis.breakdown.documentValidationScore = 85
    /\ fraudAnalysis.breakdown.imageAnalysisScore = 0
    /\ fraudAnalysis.fraudScore \in {45, 46}

\* C3: the tiers share their thresholds with the decision: a score of 70
\* or more is HIGH, manual review, FLAGGED with confidence 95; 40 to 69 is
\* MEDIUM, additional verification, PENDING with confidence 75; below 40 is
\* LOW, auto-approve, APPROVED with confidence 90; and the decision carries
\* the tier of the analysis.
C3_Thresholds ==
    Decided =>
        LET score == fraudAnalysis.fraudScore
            tier  == <<fraudAnalysis.riskLevel, fraudAnalysis.recommendation,
                       decision.status, decision.confidence>>
        IN  /\ decision.fraudScore = score
            /\ decision.riskLevel = fraudAnalysis.riskLevel
            /\ score >= 70 =>
                   tier = <<"HIGH", "MANUAL_REVIEW_REQUIRED", "FLAGGED", 95>>
            /\ score >= 40 /\ score < 70 =>
                   tier = <<"MEDIUM", "ADDITIONAL_VERIFICATION", "PENDING",
                            75>>
            /\ score < 40 =>
                   tier = <<"LOW", "AUTO_APPROVE", "APPROVED", 90>>

\* C3 witness: a submission decided at the boundary score 70.
C3_Witness ==
    /\ pc = "decided"
    /\ fraudAnalysis.fraudScore = 70
    /\ decision.status = "FLAGGED"

SameSignals ==
    /\ previous.validationResults = validationResults
    /\ previous.fraudAnalysis.imageAnalysis = fraudAnalysis.imageAnalysis

OneMoreRule ==
    /\ previous.fired \subseteq CurrentFired
    /\ Cardinality(CurrentFired \ previous.fired) = 1

\* C4: of two submissions that differ only in that the second triggers one
\* more behavioral rule, with the same document-validation result and the
\* same image result, the second has a fused score at least that of the
\* first.
C4_Monotone ==
    pc = "resubmitted" /\ SameSignals /\ OneMoreRule =>
        fraudAnalysis.fraudScore >= previous.fraudAnalysis.fraudScore

\* C4 witness: a second submission with all three signals unchanged and one
\* more rule, scored strictly higher than the first.
C4_Witness ==
    /\ pc = "resubmitted" /\ SameSignals /\ OneMoreRule
    /\ DocumentSignal /\ ImageSignal
    /\ previous.fired # {}
    /\ fraudAnalysis.fraudScore > previous.fraudAnalysis.fraudScore

----------------------------------------------------------------------------
(* ocrService.checkAuthenticity and the text checks it runs.  A scanned    *)
(* text is given by what the checks measure on it: line styles, the dates  *)
(* found, the required fields missing, the pattern matches and the         *)
(* character counts.                                                       *)

\* DOCUMENT_TEMPLATES[documentType].requiredFields.length
RequiredFieldCount(documentType) ==
    CASE documentType = "policy" -> 5
      [] documentType = "repairEstimate" -> 6
      [] documentType = "medicalBill" -> 6
      [] documentType = "policeReport" -> 5

\* DOCUMENT_TEMPLATES[documentType] is defined
HasTemplate(documentType) ==
    \E k \in 1..Len(DocTypeNames) : DocTypeNames[k] = documentType

\* pdf-lib exposes no fonts: consistent whether the buffer loads or not
checkFontConsistency(loads) == [consistent |-> TRUE, loaded |-> loads]

checkFormatConsistency(text) ==
    [consistent |-> ~(text.hasAllCaps /\ text.hasMixedCase)
                    /\ ~(text.uniqueIndents > 10)]

\* first day of the year 2000, counted from 1970-01-01
Year2000 == 10957

SpanOf(dates) ==
    Max2(0, The({d \in {dates[k] : k \in 1..Len(dates)} :
                    \A k \in 1..Len(dates) : dates[k] <= d})
            - The({d \in {dates[k] : k \in 1..Len(dates)} :
                    \A k \in 1..Len(dates) : dates[k] >= d}))

OldDates(dates) == {k \in 1..Len(dates) : dates[k] < Year2000}

DateIssues(dates, now) ==
    (IF \E k \in 1..Len(dates) : dates[k] > now
     THEN {"Contains future dates"} ELSE {})
    \cup (IF OldDates(dates) # {} /\ Len(dates) > Cardinality(OldDates(dates))
          THEN {"Contains dates from different eras"} ELSE {})
    \cup (IF Len(dates) >= 2 /\ SpanOf(dates) > 5 * 365
          THEN {"Dates span more than 5 years"} ELSE {})

\* dates: the days of the date strings of the text that new Date() parses
checkDateConsistency(dates, now) ==
    [consistent |-> DateIssues(dates, now) = {},
     issues |-> DateIssues(dates, now)]

\* Math.max(...Object.values(wordCounts), 0): the count of the word
\* "constructor" starts from Object.prototype.constructor and becomes a
\* string, which makes the maximum NaN
MaxRepetition(text) ==
    IF text.hasConstructorWord THEN NaN ELSE Max2(text.maxWordCount, 0)

PatternIf(condition, pattern) == IF condition THEN <<pattern>> ELSE <<>>

PenaltyIf(condition, penalty) == IF condition THEN penalty ELSE 0

SuspiciousPatterns(text) ==
    PatternIf(text.placeholder, "Contains placeholder text")
    \o PatternIf(text.sample, "Document marked as sample/test")
    \o PatternIf(MaxRepetition(text) > 20,
                 "Suspicious text repetition detected")
    \o PatternIf(text.usFormat > 0 /\ text.euFormat > 0,
                 "Mixed currency/number formats")

checkSuspiciousPatterns(text) ==
    [found |-> Len(SuspiciousPatterns(text)) > 0,
     patterns |-> SuspiciousPatterns(text),
     penalty |-> PenaltyIf(text.placeholder, 20)
                 + PenaltyIf(text.sample, 15)
                 + PenaltyIf(MaxRepetition(text) > 20, 10)
                 + PenaltyIf(text.usFormat > 0 /\ text.euFormat > 0, 10)]

\* specialChars / totalChars > 0.1 or shortWords / words.length > 0.1
\* (0 / 0 is NaN, which is not above 0.1)
checkDocumentQuality(text) ==
    [poor |-> (text.totalChars > 0
               /\ 10 * text.specialChars > text.totalChars)
              \/ 10 * text.shortWords > text.wordCount]

checkRequiredFields(text) == [missingCount |-> text.missingCount]

\* result.isAuthentic = result.confidence > 50, and the variant that
\* accepts a confidence of exactly 50
IsAuthenticAtLeast(confidence) == confidence >= 50

IsAuthentic(confidence) == confidence > 50

\* the confidence left after the six checks, before Math.max(0, ...)
ConfidenceLeft(text, documentType, isPdf, now) ==
    100
    - PenaltyIf(isPdf /\ ~checkFontConsistency(text.loads).consistent, 20)
    - PenaltyIf(~checkFormatConsistency(text).consistent, 15)
    - PenaltyIf(~checkDateConsistency(text.dates, now).consistent, 25)
    - PenaltyIf(HasTemplate(documentType)
                /\ 2 * checkRequiredFields(text).missingCount
                     > RequiredFieldCount(documentType), 15)
    - PenaltyIf(checkSuspiciousPatterns(text).found,
                checkSuspiciousPatterns(text).penalty)
    - PenaltyIf(checkDocumentQuality(text).poor, 10)

AuthenticityFlags(text, documentType, isPdf, now) ==
    PatternIf(isPdf /\ ~checkFontConsistency(text.loads).consistent,
              "Inconsistent fonts detected")
    \o PatternIf(~checkFormatConsistency(text).consistent,
                 "Unusual formatting detected")
    \o PatternIf(~checkDateConsistency(text.dates, now).consistent,
                 "Date inconsistencies")
    \o PatternIf(HasTemplate(documentType)
                 /\ 2 * checkRequiredFields(text).missingCount
                      > RequiredFieldCount(documentType),
                 "Missing expected fields")
    \o checkSuspiciousPatterns(text).patterns
    \o PatternIf(checkDocumentQuality(text).poor, "Poor document quality")

checkAuthenticity(text, documentType, isPdf, now) ==
    [isAuthentic |-> IsAuthentic(ConfidenceLeft(text, documentType, isPdf,
                                                now)),
     confidence |-> Max2(0, ConfidenceLeft(text, documentType, isPdf, now)),
     flags |-> AuthenticityFlags(text, documentType, isPdf, now)]

----------------------------------------------------------------------------
(* Direct calls of checkAuthenticity *)

LineStyles ==
    {[hasAllCaps |-> FALSE, hasMixedCase |-> TRUE, uniqueIndents |-> 3],
     [hasAllCaps |-> TRUE, hasMixedCase |-> TRUE, uniqueIndents |-> 3],
     [hasAllCaps |-> TRUE, hasMixedCase |-> FALSE, uniqueIndents |-> 11]}

\* the calls are made on day 20000; day 10000 lies before the year 2000
DateLists ==
    {<<>>, <<19000, 19500>>, <<20001>>, <<10000>>, <<19000, 10000>>,
     <<19000, 17000>>, <<17175, 19000>>}

\* document type and number of its required fields the text lacks
FieldStates ==
    {[documentType |-> "policy", missingCount |-> n] : n \in 0..5}
    \cup {[documentType |-> "medicalBill", missingCount |-> n] : n \in 3..4}
    \cup {[documentType |-> "unknown", missingCount |-> 0]}

WordStates ==
    {[maxWordCount |-> 20, hasConstructorWord |-> FALSE],
     [maxWordCount |-> 21, hasConstructorWord |-> FALSE],
     [maxWordCount |-> 21, hasConstructorWord |-> TRUE]}

CharStates ==
    {[totalChars |-> 0, specialChars |-> 0, shortWords |-> 0,
      wordCount |-> 1],
     [totalChars |-> 50, specialChars |-> 5, shortWords |-> 1,
      wordCount |-> 10],
     [totalChars |-> 50, specialChars |-> 6, shortWords |-> 0,
      wordCount |-> 10]}

ScannedText(style, dates, fields, words, chars, placeholder, sample, eu) ==
    [hasAllCaps |-> style.hasAllCaps, hasMixedCase |-> style.hasMixedCase,
     uniqueIndents |-> style.uniqueIndents, dates |-> dates,
     missingCount |-> fields.missingCount,
     placeholder |-> placeholder, sample |-> sample,
     maxWordCount |-> words.maxWordCount,
     hasConstructorWord |-> words.hasConstructorWord,
     usFormat |-> 1, euFormat |-> eu,
     totalChars |-> chars.totalChars, specialChars |-> chars.specialChars,
     shortWords |-> chars.shortWords, wordCount |-> chars.wordCount,
     loads |-> TRUE]

\* no request is in progress: only args, returned, clock and the registry
\* are in use
NoRequest ==
    /\ extractedData = FailedExtraction("null")
    /\ formData = BuildForm(<<>>, <<>>, 0, AbsentDate)
    /\ validationResults = NewValidationResults
    /\ submission = NoSubmission
    /\ damagePhotos = <<>>
    /\ imageResult = NoImageResult
    /\ imageAnalysisResults = NoImageAnalysis
    /\ fraudAnalysis = NoFraudAnalysis
    /\ decision = NoDecision
    /\ previous = NoPrevious
    /\ analyses = <<>>
    /\ tempFiles = NoFiles

\* the variables a direct call of a helper leaves alone
callVars ==
    <<extractedData, formData, validationResults, submission, damagePhotos,
      hashStore, clock, imageResult, imageAnalysisResults, fraudAnalysis,
      decision, previous, args, analyses, tempFiles>>

AuthenticityInit ==
    /\ pc = "authenticity"
    /\ \E style \in LineStyles, dates \in DateLists, fields \in FieldStates,
          words \in WordStates, chars \in CharStates,
          placeholder \in BOOLEAN, sample \in BOOLEAN, eu \in 0..1,
          isPdf \in BOOLEAN :
          args = [text |-> ScannedText(style, dates, fields, words, chars,
                                       placeholder, sample, eu),
                  documentType |-> fields.documentType,
                  isPdf |-> isPdf]
    /\ returned = <<>>
    /\ clock = 20000
    /\ hashStore = EmptyStore
    /\ NoRequest

\* checkAuthenticity(buffer, text, documentType, isPdf)
CheckAuthenticity ==
    /\ pc = "authenticity"
    /\ returned' = checkAuthenticity(args.text, args.documentType,
                                     args.isPdf, clock)
    /\ pc' = "authenticity checked"
    /\ UNCHANGED callVars

AuthenticityNext == CheckAuthenticity

SpecAuthenticity == AuthenticityInit /\ [][AuthenticityNext]_vars

----------------------------------------------------------------------------
(* Properties of checkAuthenticity (checked under SpecAuthenticity) *)

\* the penalty the contract fixes for each flag of the result
FlagPenalty(flag) ==
    CASE flag = "Unusual formatting detected" -> 15
      [] flag = "Date inconsistencies" -> 25
      [] flag = "Missing expected fields" -> 15
      [] flag = "Contains placeholder text" -> 20
      [] flag = "Document marked as sample/test" -> 15
      [] flag = "Suspicious text repetition detected" -> 10
      [] flag = "Mixed currency/number formats" -> 10
      [] flag = "Poor document quality" -> 10

FlagPenalties(flags) ==
    SumOver([k \in 1..Len(flags) |-> FlagPenalty(flags[k])])

\* C11: checkAuthenticity starts from 100 and subtracts the fixed penalty of
\* every check that failed (formatting 15, dates 25, more than half of the
\* required fields missing 15, the four suspicious patterns 20/15/10/10,
\* poor quality 10); isAuthentic is true exactly when what is left is above
\* 50, and the returned confidence is what is left, floored at 0.
C11_Authenticity ==
    pc = "authenticity checked" =>
        /\ returned.confidence = Max2(0, 100 - FlagPenalties(returned.flags))
        /\ returned.isAuthentic <=> 100 - FlagPenalties(returned.flags) > 50
        /\ returned.isAuthentic <=> returned.confidence > 50
        /\ returned.confidence >= 0
        /\ ("Missing expected fields" \in
                {returned.flags[k] : k \in 1..Len(returned.flags)})
           <=> (HasTemplate(args.documentType)
                /\ 2 * args.text.missingCount
                     > RequiredFieldCount(args.documentType))

\* a call that leaves a confidence of exactly 50 and is not authentic, and
\* (in another behaviour) one whose penalties exceed 100
C11_Witness ==
    /\ pc = "authenticity checked"
    /\ returned.confidence = 50
    /\ ~returned.isAuthentic
    /\ Len(returned.flags) = 3

C11_WitnessFloor ==
    /\ pc = "authenticity checked"
    /\ returned.confidence = 0
    /\ FlagPenalties(returned.flags) > 100

----------------------------------------------------------------------------
(* Properties of calculatePerceptualHash (checked under SpecImages) *)

HexDigits ==
    <<"0", "1", "2", "3", "4", "5", "6", "7", "8", "9", "a", "b", "c", "d",
      "e", "f">>

HexValue(digit) == The({k \in 1..Len(HexDigits) : HexDigits[k] = digit}) - 1

\* number of the four bits in which two hexadecimal digits differ
DigitBits(a, b) ==
    Cardinality({i \in 0..3 : (HexValue(a) \div (2 ^ i)) % 2
                              # (HexValue(b) \div (2 ^ i)) % 2})

\* number of differing bits of two hashes of the same length
BitDistance(hash1, hash2) ==
    SumOver([k \in 1..Min2(Len(hash1), Len(hash2)) |->
                DigitBits(hash1[k], hash2[k])])

\* the hashes the registry holds under identifiers other than the current one
OtherClaimsHashes ==
    UNION {{hashStore[c][k] : k \in 1..Len(hashStore[c])} :
              c \in (DOMAIN hashStore) \ {formData.policyNumber}}

\* C12: the hash of the analysed image is a cross-claim duplicate exactly
\* when a hash stored under another claim identifier differs from it in
\* fewer than 5 bits; hashes stored under the current identifier are never
\* compared; a duplicate adds the indicator and the penalty to the result.
C12_CrossClaim ==
    (pc = "image analyzed" /\ imageResult.hash # <<>>) =>
        /\ imageResult.duplicatesFound
           <=> \E stored \in OtherClaimsHashes :
                   BitDistance(imageResult.hash, stored) < 5
        /\ imageResult.duplicatesFound
           => \E k \in 1..Len(imageResult.fraudIndicators) :
                 imageResult.fraudIndicators[k]
                     \in {"Image matches photos from " \o ToString(n)
                              \o " other claim(s)" :
                             n \in 1..Cardinality(OtherClaimsHashes)}

----------------------------------------------------------------------------
(* Overlapping analyses.  Each submission analyses its images one after    *)
(* the other (the for loop of analyzeMultipleImages awaits every           *)
(* analyzeImage), but the analyses of different submissions interleave at  *)
(* the awaits of calculatePerceptualHash: after fs.writeFile, after        *)
(* imghash.hash and after fs.unlink.  The code between two awaits runs     *)
(* without interruption.  clock is Date.now() in this specification.       *)

\* bytes left by two writeFile calls on one path that ran at the same time
Mixed == [decodable |-> FALSE, phash |-> <<>>]

Bytes(image) == [decodable |-> image.decodable, phash |-> image.phash]

\* an analysis moves on to the next image of its submission
NextImage(a, hashResult) ==
    [a EXCEPT !.results = Append(@, hashResult),
              !.index = @ + 1,
              !.pc = IF a.index + 1 > Len(a.images) THEN "done" ELSE "start",
              !.tempPath = 0,
              !.hash = <<>>,
              !.overlapped = {},
              !.rivalBytes = {}]

\* Date.now() advances
MaxClock == 3

Tick ==
    /\ pc = "overlap"
    /\ clock < MaxClock
    /\ clock' = clock + 1
    /\ UNCHANGED <<pc, extractedData, formData, validationResults,
                   submission, damagePhotos, hashStore, imageResult,
                   imageAnalysisResults, fraudAnalysis, decision, previous,
                   args, returned, analyses, tempFiles>>

\* the variables the steps of an analysis leave alone
requestVars ==
    <<pc, extractedData, formData, validationResults, submission,
      damagePhotos, clock, imageResult, imageAnalysisResults, fraudAnalysis,
      decision, previous, args, returned>>

\* tempPath = temp_${Date.now()}.jpg and the call of fs.writeFile; the
\* analyses already writing to that path now share the file with this one
StartWrite(s) ==
    /\ pc = "overlap"
    /\ analyses[s].pc = "start"
    /\ analyses' =
           [u \in 1..Len(analyses) |->
               IF u = s
               THEN [analyses[s] EXCEPT
                        !.pc = "writing",
                        !.tempPath = clock,
                        !.overlapped =
                            {w \in 1..Len(analyses) :
                                /\ w # s
                                /\ analyses[w].pc = "writing"
                                /\ analyses[w].tempPath = clock},
                        !.rivalBytes =
                            {Bytes(analyses[w].images[analyses[w].index]) :
                                w \in {w \in 1..Len(analyses) :
                                          /\ w # s
                                          /\ analyses[w].pc = "writing"
                                          /\ analyses[w].tempPath = clock}}]
               ELSE IF analyses[u].pc = "writing"
                       /\ analyses[u].tempPath = clock
               THEN [analyses[u] EXCEPT
                        !.overlapped = @ \cup {s},
                        !.rivalBytes =
                            @ \cup {Bytes(analyses[s].images[
                                              analyses[s].index])}]
               ELSE analyses[u]]
    /\ UNCHANGED <<hashStore, tempFiles>>
    /\ UNCHANGED requestVars

\* what the file can hold when the writeFile of analysis s settles: its own
\* bytes; or, when another writeFile on the same path ran at the same time,
\* what that one left, or a mix of both when the two wrote different bytes
WriteOutcomes(s) ==
    {[content |-> Bytes(analyses[s].images[analyses[s].index]),
      writer |-> s]}
    \cup (IF analyses[s].rivalBytes
                 \ {Bytes(analyses[s].images[analyses[s].index])} # {}
          THEN {[content |-> Mixed, writer |-> s]} ELSE {})
    \cup (IF analyses[s].tempPath \in DOMAIN tempFiles
          THEN {f \in {tempFiles[analyses[s].tempPath]} :
                   f.writer \in analyses[s].overlapped}
          ELSE {})

\* await fs.writeFile(tempPath, imageBuffer) settles
WriteDone(s) ==
    /\ pc = "overlap"
    /\ analyses[s].pc = "writing"
    /\ \E file \in WriteOutcomes(s) :
           tempFiles' = [name \in DOMAIN tempFiles \cup {analyses[s].tempPath}
                            |-> IF name = analyses[s].tempPath THEN file
                                ELSE tempFiles[name]]
    /\ analyses' = [analyses EXCEPT ![s].pc = "written"]
    /\ UNCHANGED hashStore
    /\ UNCHANGED requestVars

\* await imghash.hash(tempPath, 16): the hash of whatever the file holds
\* now; it throws when the file is gone or cannot be decoded, and the catch
\* block returns the result without hash (the file is then left behind)
HashFile(s) ==
    /\ pc = "overlap"
    /\ analyses[s].pc = "written"
    /\ IF analyses[s].tempPath \in DOMAIN tempFiles
          /\ tempFiles[analyses[s].tempPath].content.decodable
       THEN analyses' =
                [analyses EXCEPT
                    ![s].pc = "hashed",
                    ![s].hash = tempFiles[analyses[s].tempPath].content.phash,
                    ![s].hashed = @ + 1]
       ELSE analyses' =
                [analyses EXCEPT
                    ![s] = NextImage(@, [hash |-> <<>>, duplicates |-> 0])]
    /\ UNCHANGED <<hashStore, tempFiles>>
    /\ UNCHANGED requestVars

\* await fs.unlink(tempPath).catch(() => { })
Unlink(s) ==
    /\ pc = "overlap"
    /\ analyses[s].pc = "hashed"
    /\ tempFiles' = [name \in (DOMAIN tempFiles) \ {analyses[s].tempPath}
                        |-> tempFiles[name]]
    /\ analyses' = [analyses EXCEPT ![s].pc = "unlinked"]
    /\ UNCHANGED hashStore
    /\ UNCHANGED requestVars

\* the comparison with the stored hashes and the registration of the hash,
\* which run without an await in between
Register(s) ==
    /\ pc = "overlap"
    /\ analyses[s].pc = "unlinked"
    /\ hashStore' = StoreHash(hashStore, analyses[s].claimIdentifier,
                              analyses[s].hash)
    /\ analyses' =
           [analyses EXCEPT
               ![s] = NextImage(@,
                         [hash |-> analyses[s].hash,
                          duplicates |->
                              Cardinality(CrossClaimDuplicates(
                                  analyses[s].hash,
                                  analyses[s].claimIdentifier, hashStore))])]
    /\ UNCHANGED tempFiles
    /\ UNCHANGED requestVars

\* an analysis of the images of one submission that has not started yet
Analysis(claimIdentifier, images) ==
    [claimIdentifier |-> claimIdentifier, images |-> images, index |-> 1,
     pc |-> "start", tempPath |-> 0, hash |-> <<>>, overlapped |-> {},
     rivalBytes |-> {}, hashed |-> 0, results |-> <<>>]

ThisClaim == ScenarioD.submitted

\* the registry holds one hash of an old photo of this claim, or nothing
EarlierStore == [c \in {ThisClaim} |-> <<OldPhoto.phash>>]

OverlapInit ==
    /\ pc = "overlap"
    /\ \E first \in {<<CameraPhoto>>, <<CameraPhoto, OutdoorPhoto>>,
                     <<CorruptFile, CameraPhoto>>},
          second \in {<<EditedPhoto>>, <<CameraPhoto>>,
                      <<EditedPhoto, EditedCopy>>},
          other \in {ThisClaim, OtherClaim, <<>>} :
          analyses = <<Analysis(ThisClaim, first), Analysis(other, second)>>
    /\ hashStore \in {EmptyStore, EarlierStore}
    /\ tempFiles = NoFiles
    /\ clock = 1
    /\ extractedData = FailedExtraction("null")
    /\ formData = BuildForm(<<>>, <<>>, 0, AbsentDate)
    /\ validationResults = NewValidationResults
    /\ submission = NoSubmission
    /\ damagePhotos = <<>>
    /\ imageResult = NoImageResult
    /\ imageAnalysisResults = NoImageAnalysis
    /\ fraudAnalysis = NoFraudAnalysis
    /\ decision = NoDecision
    /\ previous = NoPrevious
    /\ args = <<>>
    /\ returned = <<>>

OverlapNext ==
    \/ Tick
    \/ \E s \in 1..Len(analyses) : StartWrite(s)
    \/ \E s \in 1..Len(analyses) : WriteDone(s)
    \/ \E s \in 1..Len(analyses) : HashFile(s)
    \/ \E s \in 1..Len(analyses) : Unlink(s)
    \/ \E s \in 1..Len(analyses) : Register(s)

SpecOverlap == OverlapInit /\ [][OverlapNext]_vars

----------------------------------------------------------------------------
(* Properties of the registry (checked under SpecOverlap) *)

IsPrefix(s, t) == Len(s) <= Len(t) /\ SubSeq(t, 1, Len(s)) = s

\* every list of the registry is still there, with what it held in front
AppendOnly ==
    \A c \in DOMAIN hashStore :
        c \in DOMAIN hashStore' /\ IsPrefix(hashStore[c], hashStore'[c])

\* images hashed with claim identifier c whose registration has run
RegisteredFor(c) ==
    SumOver([s \in 1..Len(analyses) |->
                IF analyses[s].claimIdentifier # c THEN 0
                ELSE analyses[s].hashed
                     - (IF analyses[s].pc \in {"hashed", "unlinked"}
                        THEN 1 ELSE 0)])

\* the entry the registry held before the analyses began
EarlierFor(c) ==
    IF c = ThisClaim /\ hashStore[c][1] = OldPhoto.phash THEN 1 ELSE 0

OneEntryEach ==
    /\ \A c \in DOMAIN hashStore :
           Len(hashStore[c]) = EarlierFor(c) + RegisteredFor(c)
    /\ \A s \in 1..Len(analyses) :
           (analyses[s].claimIdentifier # <<>>
            /\ analyses[s].hashed
               - (IF analyses[s].pc \in {"hashed", "unlinked"} THEN 1 ELSE 0)
               > 0)
           => analyses[s].claimIdentifier \in DOMAIN hashStore

\* C13: under every interleaving of the analyses the registry is
\* append-only (a list never disappears and keeps its earlier entries in
\* place), and every image hashed with a claim identifier has exactly one
\* entry under that identifier once its registration has run.
C13_AppendOnly == [][AppendOnly]_vars /\ []OneEntryEach

\* both analyses have finished, their steps interleaved, and the registry
\* holds an entry for each of the four images
C13_Witness ==
    /\ \A s \in 1..Len(analyses) : analyses[s].pc = "done"
    /\ analyses[1].claimIdentifier = analyses[2].claimIdentifier
    /\ analyses[1].hashed = 2 /\ analyses[2].hashed = 2
    /\ hashStore # EmptyStore
    /\ Len(hashStore[ThisClaim]) = 5
    /\ analyses[1].results[1].hash # hashStore[ThisClaim][2]

\* the hashes of the images submitted and analysed for claim identifier c,
\* the old photo of the earlier submission included
SubmittedFor(c) ==
    (IF c = ThisClaim THEN {OldPhoto.phash} ELSE {})
    \cup UNION {{analyses[s].images[k].phash :
                    k \in 1..Len(analyses[s].images)} :
                   s \in {s \in 1..Len(analyses) :
                             analyses[s].claimIdentifier = c}}

\* C14: in every reachable state each hash stored under claim identifier c
\* is the perceptual hash of an image submitted and analysed for c, under
\* every interleaving of the write, hash, delete and register steps, also
\* when two analyses obtain the same millisecond temporary file name.
C14_RegistryInvariant ==
    \A c \in DOMAIN hashStore :
        \A k \in 1..Len(hashStore[c]) : hashStore[c][k] \in SubmittedFor(c)

----------------------------------------------------------------------------
(* Direct calls of hammingDistance *)

\* hashes of up to MaxHashLength hexadecimal digits
MaxHashLength == 3

Hashes == ListsUpTo({"0", "a", "f"}, MaxHashLength)

HammingInit ==
    /\ pc = "hamming"
    /\ args \in [hash1 : Hashes, hash2 : Hashes]
    /\ returned = <<>>
    /\ clock = 20
    /\ hashStore = EmptyStore
    /\ NoRequest

\* hammingDistance(hash1, hash2), hammingDistance(hash2, hash1) and
\* hammingDistance(hash1, hash1)
Distances ==
    /\ pc = "hamming"
    /\ returned' = [forward |-> hammingDistance(args.hash1, args.hash2),
                    backward |-> hammingDistance(args.hash2, args.hash1),
                    self |-> hammingDistance(args.hash1, args.hash1)]
    /\ pc' = "distances"
    /\ UNCHANGED callVars

HammingNext == Distances

SpecHamming == HammingInit /\ [][HammingNext]_vars

\* C15: hammingDistance(h1, h2) = hammingDistance(h2, h1) for all hash
\* pairs, and hammingDistance(h, h) = 0 for every hash.
C15_Symmetric ==
    pc = "distances" =>
        /\ returned.forward = returned.backward
        /\ returned.self = 0

\* two hashes of different lengths that differ in two of the digits both have
C15_Witness ==
    /\ pc = "distances"
    /\ Len(args.hash1) = 3 /\ Len(args.hash2) = 2
    /\ returned.forward = 2
    /\ returned.backward = 2

----------------------------------------------------------------------------
(* Direct calls of analyzeMultipleImages on an image list and on a         *)
(* rearrangement of it, both from the same registry                        *)

\* a clean photo whose hash is one digit from the edited photo's and one
\* from its copy's
CleanCopy ==
    [CameraPhoto EXCEPT !.phash = <<"5", "5", "a", "a", "5", "5", "a", "b">>]

ListedPhotos ==
    {EditedPhoto, EditedCopy, CleanCopy, CorruptFile, ReusedPhoto}

MaxListed == 3

\* the rearrangements of a list
Rearrangements(seq) ==
    {SubSeq([k \in 1..Len(seq) |-> seq[f[k]]], 1, Len(seq)) :
        f \in {g \in [1..Len(seq) -> 1..Len(seq)] :
                  \A i, j \in 1..Len(seq) : g[i] = g[j] => i = j}}

AggregateInit ==
    /\ pc = "aggregate"
    /\ \E images \in ListsUpTo(ListedPhotos, MaxListed) :
          \E permuted \in Rearrangements(images) :
             args \in [images : {images}, permuted : {permuted},
                       claimData :
                           [claimType : {Auto}, incidentDate : {Day(15)},
                            policyNumber : {ScenarioD.submitted, <<>>}]]
    /\ returned = <<>>
    /\ clock = 20
    /\ hashStore \in {EmptyStore, SeededStore}
    /\ NoRequest

WithoutStore(out) == [f \in (DOMAIN out) \ {"store"} |-> out[f]]

\* analyzeMultipleImages(images, claimData), and what the same call on the
\* rearranged list returns from the same registry
AggregateBoth ==
    /\ pc = "aggregate"
    /\ \E out \in {analyzeMultipleImages(args.images, args.claimData,
                                        hashStore)},
          again \in {analyzeMultipleImages(args.permuted, args.claimData,
                                          hashStore)} :
           /\ returned' = [result |-> WithoutStore(out),
                           permuted |-> WithoutStore(again)]
           /\ hashStore' = out.store
    /\ pc' = "aggregated"
    /\ UNCHANGED <<extractedData, formData, validationResults, submission,
                   damagePhotos, clock, imageResult, imageAnalysisResults,
                   fraudAnalysis, decision, previous, args, analyses,
                   tempFiles>>

AggregateNext == AggregateBoth

SpecAggregate == AggregateInit /\ [][AggregateNext]_vars

----------------------------------------------------------------------------
(* Properties of analyzeMultipleImages (checked under SpecAggregate) *)

\* the unordered pairs of hashed images of the call at distance below 3
DuplicatePairsOf(images) ==
    {<<i, j>> \in (1..Len(images)) \X (1..Len(images)) :
        /\ i < j
        /\ images[i].decodable /\ images[j].decodable
        /\ hammingDistance(images[i].phash, images[j].phash) < 3}

DuplicateText(n) == ToString(n) \o " duplicate images detected in submission"

CombinedIndicatorsOf(result) ==
    {result.combinedIndicators[k] : k \in 1..Len(result.combinedIndicators)}

\* sum of the scores of the individual results
TotalScore(result) == SumOver(FieldOf(result.individualResults, "fraudScore"))

C16_WitnessOnePair ==
    /\ pc = "aggregated"
    /\ args.images = <<EditedPhoto, EditedCopy>>
    /\ DuplicateText(1) \in CombinedIndicatorsOf(returned.result)

\* the mean of the individual scores, rounded; 0 for no image
MeanOf(result) ==
    IF Len(result.individualResults) = 0 THEN 0
    ELSE RoundDiv(TotalScore(result), Len(result.individualResults))

\* C17: the aggregate score is the mean of the per-image scores plus 20
\* when the submission holds duplicates plus 15 when the image list is
\* empty, clamped to 0..100; for an empty list it is exactly 15 and the
\* indicator for missing photos is present.
C17_Aggregate ==
    pc = "aggregated" =>
        /\ returned.result.combinedFraudScore
           = Max2(0, Min2(100,
                 MeanOf(returned.result)
                 + (IF DuplicatePairsOf(args.images) = {} THEN 0 ELSE 20)
                 + (IF Len(args.images) = 0 THEN 15 ELSE 0)))
        /\ Len(args.images) = 0
           => /\ returned.result.combinedFraudScore = 15
              /\ "No damage photos provided"
                     \in CombinedIndicatorsOf(returned.result)

\* C18: from the same registry and for the same claim, analyzeMultipleImages
\* on any rearrangement of an image list returns the same
\* combinedFraudScore, the same set of combined indicators and the same
\* confidence.
C18_OrderIndependent ==
    pc = "aggregated" =>
        /\ returned.permuted.combinedFraudScore
           = returned.result.combinedFraudScore
        /\ CombinedIndicatorsOf(returned.permuted)
           = CombinedIndicatorsOf(returned.result)
        /\ returned.permuted.confidence.num * returned.result.confidence.den
           = returned.result.confidence.num * returned.permuted.confidence.den

\* three images with different scores, one of them matching another claim's
\* photo, analysed in two different orders that list the indicators
\* differently
C18_Witness ==
    /\ pc = "aggregated"
    /\ Len(args.images) = 3
    /\ args.permuted # args.images
    /\ args.images[1] = ReusedPhoto
    /\ returned.result.individualResults[1].duplicatesFound
    /\ returned.result.individualResults[1].fraudScore
       # returned.result.individualResults[2].fraudScore
    /\ returned.result.combinedIndicators
       # returned.permuted.combinedIndicators

----------------------------------------------------------------------------
(* The public entry points called directly, with fields absent or          *)
(* malformed.  A call either returns a value or raises to its caller.      *)

Raised(error) == [raised |-> TRUE, error |-> error]

Returned(value) == [raised |-> FALSE, value |-> value]

\* a value that may be undefined
Absent == [present |-> FALSE, value |-> <<>>]

Present(value) == [present |-> TRUE, value |-> value]

\* generateExplanation builds the three texts before it picks one; the
\* first of them already calls claimAmount.toLocaleString() and reads
\* indicators.length
generateExplanation(kind, fraudScore, indicators, claimAmount) ==
    IF ~claimAmount.present THEN Raised("TypeError")
    ELSE IF ~indicators.present THEN Raised("TypeError")
    ELSE Returned([decision |-> kind,
                   observations |-> Len(indicators.value)])

\* the first argument makeDecision passes to generateExplanation
ExplanationKind(status) ==
    CASE status = "FLAGGED" -> "flagged"
      [] status = "PENDING" -> "pending"
      [] status = "APPROVED" -> "approved"

\* decisionEngine.makeDecision(fraudAnalysis, claimAmount) with its
\* explanation, where fraudAnalysis.indicators and claimAmount may be
\* undefined
makeDecisionExplained(analysis, claimAmount) ==
    IF generateExplanation(ExplanationKind(makeDecision(analysis).status),
                           analysis.fraudScore, analysis.indicators,
                           claimAmount).raised
    THEN Raised("TypeError")
    ELSE Returned(makeDecision(analysis))

\* ocrService.extractFromDocument: the extraction, or the object of the
\* catch block when the bytes cannot be processed
extractFromDocument(document) ==
    IF document.readable THEN document.extraction
    ELSE FailedExtraction("error")

\* the calls of makeDecision
AnalysisObjects ==
    {[fraudScore |-> score, riskLevel |-> getFraudRiskLevel(score),
      recommendation |-> getRecommendation(score), indicators |-> indicators] :
        score \in {10, 40, 69, 70, 100},
        indicators \in {Absent, Present(<<>>),
                        Present(<<"High claim amount detected">>)}}

MakeDecisionCalls ==
    [entry : {"makeDecision"}, fraudAnalysis : AnalysisObjects,
     claimAmount : {Absent, Present(9500), Present(60000)}]

\* the calls of analyzeImage and analyzeMultipleImages: unreadable bytes,
\* a claim type that is not a string, no incident date, no policy number
DirectClaimData ==
    [claimType : {Auto, ClaimType(<<>>), NonStringClaimType},
     incidentDate : {AbsentDate, UnparsableDate, Day(15)},
     policyNumber : {ScenarioD.submitted, <<>>}]

AnalyzeImageCalls ==
    [entry : {"analyzeImage"},
     image : {CameraPhoto, CorruptFile, EditedPhoto},
     claimData : DirectClaimData]

AnalyzeMultipleImagesCalls ==
    [entry : {"analyzeMultipleImages"},
     images : {<<>>, <<CorruptFile>>, <<CameraPhoto, CorruptFile>>},
     claimData : DirectClaimData]

\* the calls of extractFromDocument
ExtractCalls ==
    [entry : {"extractFromDocument"},
     document : {[readable |-> readable, extraction |-> doc.extracted] :
                    readable \in BOOLEAN, doc \in Documents}]

\* the calls of validateDocumentData: a missing or failed extraction, and
\* forms with and without their fields
ValidateCalls ==
    [entry : {"validateDocumentData"},
     extractedData : {FailedExtraction("null"), FailedExtraction("error")}
                     \cup {doc.extracted : doc \in Documents},
     formData : {BuildForm(<<>>, <<>>, 0, AbsentDate),
                 BuildForm(ScenarioD.submitted, JohnSmith, 9500, Day(15))}]

\* the calls of analyzeClaim: no description, no claim amount (NaN), a
\* claim type that is not a string, unreadable bytes
AnalyzeClaimCalls ==
    [entry : {"analyzeClaim"},
     claimData :
         {ClaimDataOf(FailedExtraction("null"),
                      BuildForm(<<>>, <<>>, amount, incident),
                      [claimType |-> claimType, description |-> description],
                      NoDocumentValidation) :
             amount \in {NaN, 9500},
             incident \in {AbsentDate, Day(15)},
             claimType \in {Auto, NonStringClaimType},
             description \in {<<>>, ShortPlain}},
     imageBuffers : {<<>>, <<CorruptFile>>, <<CameraPhoto>>}]

TotalityInit ==
    /\ pc = "call"
    /\ \/ args \in MakeDecisionCalls
       \/ args \in AnalyzeImageCalls
       \/ args \in AnalyzeMultipleImagesCalls
       \/ args \in ExtractCalls
       \/ args \in ValidateCalls
       \/ args \in AnalyzeClaimCalls
    /\ returned = <<>>
    /\ clock = 20
    /\ hashStore = EmptyStore
    /\ NoRequest

CallMakeDecision ==
    /\ pc = "call"
    /\ args.entry = "makeDecision"
    /\ returned' = makeDecisionExplained(args.fraudAnalysis, args.claimAmount)
    /\ pc' = "returned"
    /\ UNCHANGED callVars

CallAnalyzeImage ==
    /\ pc = "call"
    /\ args.entry = "analyzeImage"
    /\ \E out \in {analyzeImage(args.image, args.claimData, hashStore)} :
           /\ returned' = Returned(WithoutStore(out))
           /\ hashStore' = out.store
    /\ pc' = "returned"
    /\ UNCHANGED <<extractedData, formData, validationResults, submission,
                   damagePhotos, clock, imageResult, imageAnalysisResults,
                   fraudAnalysis, decision, previous, args, analyses,
                   tempFiles>>

CallAnalyzeMultipleImages ==
    /\ pc = "call"
    /\ args.entry = "analyzeMultipleImages"
    /\ \E out \in {analyzeMultipleImages(args.images, args.claimData,
                                        hashStore)} :
           /\ returned' = Returned(WithoutStore(out))
           /\ hashStore' = out.store
    /\ pc' = "returned"
    /\ UNCHANGED <<extractedData, formData, validationResults, submission,
                   damagePhotos, clock, imageResult, imageAnalysisResults,
                   fraudAnalysis, decision, previous, args, analyses,
                   tempFiles>>

CallExtractFromDocument ==
    /\ pc = "call"
    /\ args.entry = "extractFromDocument"
    /\ returned' = Returned(extractFromDocument(args.document))
    /\ pc' = "returned"
    /\ UNCHANGED callVars

CallValidateDocumentData ==
    /\ pc = "call"
    /\ args.entry = "validateDocumentData"
    /\ returned' = Returned(validateDocumentData(args.extractedData,
                                                 args.formData))
    /\ pc' = "returned"
    /\ UNCHANGED callVars

CallAnalyzeClaim ==
    /\ pc = "call"
    /\ args.entry = "analyzeClaim"
    /\ \E out \in {analyzeClaim(args.claimData, args.imageBuffers, hashStore,
                               clock)} :
           /\ returned' = Returned(WithoutStore(out))
           /\ hashStore' = out.store
    /\ pc' = "returned"
    /\ UNCHANGED <<extractedData, formData, validationResults, submission,
                   damagePhotos, clock, imageResult, imageAnalysisResults,
                   fraudAnalysis, decision, previous, args, analyses,
                   tempFiles>>

TotalityNext ==
    \/ CallMakeDecision
    \/ CallAnalyzeImage
    \/ CallAnalyzeMultipleImages
    \/ CallExtractFromDocument
    \/ CallValidateDocumentData
    \/ CallAnalyzeClaim

SpecTotality == TotalityInit /\ [][TotalityNext]_vars

----------------------------------------------------------------------------
(* Properties of the entry points (checked under SpecTotality) *)

\* C19: each public entry point (analyzeImage, analyzeMultipleImages,
\* extractFromDocument, validateDocumentData, analyzeClaim, makeDecision)
\* returns a result object for every input and never raises to its caller,
\* also when the description, the claim amount or the indicator list is
\* missing, the claim type is not text or the bytes are unreadable.
C19_Total == pc = "returned" => ~returned.raised

----------------------------------------------------------------------------
(* analyzeImage and analyzeMultipleImages on images of which one sub-check *)
(* fails, or which cannot be read at all                                   *)

\* the five sub-checks analyzeImage runs under Promise.all
SubChecks == {"metadata", "quality", "tamper", "hashing", "labels"}

\* the sub-checks whose try block throws on the image
FailedSubChecks(image) ==
    {c \in SubChecks :
        IF c = "metadata" THEN ~image.exifParses ELSE Fails(image, c)}

\* the photo as it is, with one of the sharp / imghash sub-checks failing on
\* it, with an EXIF block the parser rejects, and as a path that cannot be
\* read
FailingIn(photo) ==
    {[photo EXCEPT !.failing = {c}] : c \in SubChecks \ {"metadata"}}
    \cup {photo, [photo EXCEPT !.exifParses = FALSE],
          [photo EXCEPT !.readable = FALSE]}

IsolationPhotos ==
    FailingIn(EditedPhoto) \cup FailingIn(ReusedPhoto) \cup {CorruptFile}

IsolationInit ==
    /\ pc = "images"
    /\ damagePhotos \in ListsUpTo(IsolationPhotos, MaxImages)
    /\ submission \in [claimType : {Auto, Home, NonStringClaimType},
                        description : {<<>>}]
    /\ formData \in {BuildForm(pn, <<>>, 0, Day(15)) :
                        pn \in {ScenarioD.submitted, <<>>}}
    /\ hashStore \in {EmptyStore, SeededStore}
    /\ extractedData = FailedExtraction("null")
    /\ validationResults = NewValidationResults
    /\ clock = 20
    /\ Idle

SpecIsolation == IsolationInit /\ [][ImagesNext]_vars

----------------------------------------------------------------------------
(* Properties of failure isolation (checked under SpecIsolation) *)

\* what a sub-check returns for the image
SubCheckResult(c, image, claimData, store) ==
    IF c = "metadata" THEN extractExifMetadata(image)
    ELSE IF c = "quality" THEN analyzeImageQuality(image)
    ELSE IF c = "tamper" THEN detectImageEditing(image)
    ELSE IF c = "hashing"
    THEN calculatePerceptualHash(image, claimData.policyNumber, store)
    ELSE NoSubResult

\* the penalties of the sub-checks that did not fail on the image
PenaltiesOfOthers(image, claimData, store) ==
    SumOver([k \in 1..5 |->
        IF <<"metadata", "quality", "tamper", "hashing", "labels">>[k]
               \in FailedSubChecks(image)
        THEN 0
        ELSE SubCheckResult(
                 <<"metadata", "quality", "tamper", "hashing", "labels">>[k],
                 image, claimData, store).fraudScore])

\* the result of analyzeImage holds what every sub-check that did not fail
\* has produced: its indicators, its penalties (up to the cap of 100), the
\* hash and the labels
SubChecksKept(image, claimData, store, result) ==
    /\ \A c \in SubChecks \ FailedSubChecks(image) :
           Range(SubCheckResult(c, image, claimData,
                                     store).fraudIndicators)
               \subseteq Range(result.fraudIndicators)
    /\ result.fraudScore
           >= Min2(PenaltiesOfOthers(image, claimData, store), 100)
    /\ "hashing" \notin FailedSubChecks(image) => result.hash = image.phash
    /\ "labels" \notin FailedSubChecks(image)
           => result.detectedObjects = detectObjects(image)

\* every image of the list has its own result, the one analyzeImage gives
\* for that image alone, whatever happened to the images before it
EveryImageScored(images, claimData, store, combined) ==
    /\ combined.imageCount = Len(images)
    /\ Len(combined.individualResults) = Len(images)
    /\ \A k \in 1..Len(images) :
           /\ WithoutStore(combined.individualResults[k])
                  = WithoutStore(analyzeImage(images[k], claimData, store))
           /\ images[k].readable
                  => SubChecksKept(images[k], claimData, store,
                                   combined.individualResults[k])

\* C20: when one sub-check of analyzeImage (metadata, quality, tamper,
\* hashing, content labels) fails internally, the penalties and indicators
\* of the other sub-checks are still in the returned result; and when the
\* analysis of one image of a list fails, analyzeMultipleImages still
\* analyses and scores every other image of the list.
C20_Isolation ==
    [][/\ (pc' = "image analyzed" /\ Head(damagePhotos).readable)
           => SubChecksKept(Head(damagePhotos), ImageClaimData, hashStore,
                            imageResult')
       /\ pc' = "images analyzed"
           => EveryImageScored(damagePhotos, ImageClaimData, hashStore,
                               imageAnalysisResults')]_vars

\* the first photo cannot be read and its analysis has failed; on the
\* second the tamper sub-check has failed, and its result holds the
\* indicators of the metadata and quality sub-checks and its hash
C20_Witness ==
    /\ pc = "images analyzed"
    /\ damagePhotos = <<[ReusedPhoto EXCEPT !.readable = FALSE],
                        [EditedPhoto EXCEPT !.failing = {"tamper"}]>>
    /\ imageAnalysisResults.individualResults[1].error
    /\ ~imageAnalysisResults.individualResults[2].error
    /\ imageAnalysisResults.individualResults[2].fraudScore >= 60
    /\ "Image edited with" \in Range(
           imageAnalysisResults.individualResults[2].fraudIndicators)
    /\ "Image appears blurry - may obscure details" \in Range(
           imageAnalysisResults.individualResults[2].fraudIndicators)
    /\ "Potential image manipulation detected (ELA analysis)" \notin
           Range(
               imageAnalysisResults.individualResults[2].fraudIndicators)
    /\ imageAnalysisResults.individualResults[2].hash = EditedPhoto.phash

\* analyzeImage alone: the hashing sub-check has failed on a photo another
\* claim has filed, and the result holds no hash and no match, and the
\* penalties of the other sub-checks
C20_WitnessHashing ==
    /\ pc = "image analyzed"
    /\ Head(damagePhotos) = [EditedPhoto EXCEPT !.failing = {"hashing"}]
    /\ imageResult.hash = <<>>
    /\ ~imageResult.error
    /\ imageResult.fraudScore = 100

----------------------------------------------------------------------------
(* Two runs of an entry point on the same inputs and the same registry, at *)
(* the instants the clock shows                                            *)

\* makeDecision with the instant it stamps on the decision
\* (processedAt: new Date().toISOString())
makeDecisionAt(analysis, claimAmount, now) ==
    IF makeDecisionExplained(analysis, claimAmount).raised
    THEN Raised("TypeError")
    ELSE Returned(makeDecision(analysis) @@ [processedAt |-> now])

\* validateDocumentData with the instant it stamps on its result
\* (timestamp: new Date().toISOString())
validateDocumentDataAt(e, f, now) ==
    validateDocumentData(e, f) @@ [timestamp |-> now]

\* extractFromDocument as far as it depends on the instant of the call: the
\* document type and the authenticity of the extracted text, or the object
\* of the catch block
extractFromDocumentAt(document, now) ==
    IF document.readable
    THEN [failed |-> FALSE, documentType |-> document.documentType,
          authenticity |-> checkAuthenticity(document.text,
                               document.documentType, document.isPdf, now)]
    ELSE [failed |-> TRUE, documentType |-> "unknown",
          authenticity |-> <<>>]

\* the last day of the calendar of these runs
MaxDay == 18

\* documents whose text holds no date, a date of day 16, or one of day 19
DatedDocuments ==
    {[readable |-> readable, documentType |-> "unknown", isPdf |-> FALSE,
      text |-> ScannedText(
                   [hasAllCaps |-> FALSE, hasMixedCase |-> TRUE,
                    uniqueIndents |-> 3],
                   dates, [missingCount |-> 0],
                   [maxWordCount |-> 20, hasConstructorWord |-> FALSE],
                   [totalChars |-> 50, specialChars |-> 5, shortWords |-> 1,
                    wordCount |-> 10],
                   FALSE, FALSE, 0)] :
        readable \in BOOLEAN, dates \in {<<>>, <<16>>, <<19>>}}

DatedExtractCalls ==
    [entry : {"extractFromDocument"}, document : DatedDocuments]

RepeatedCalls ==
    MakeDecisionCalls \cup AnalyzeImageCalls \cup DatedExtractCalls
    \cup ValidateCalls \cup AnalyzeClaimCalls

RepeatInit ==
    /\ pc = "run"
    /\ \E call \in RepeatedCalls, registry \in {EmptyStore, SeededStore} :
          /\ args = [call |-> call, registry |-> registry]
          /\ hashStore = registry
    /\ returned = <<>>
    /\ clock \in 15..16
    /\ NoRequest

\* after the second run
RanTwice == IF Len(returned) = 1 THEN "run twice" ELSE "run"

\* time passes between the two runs
Later ==
    /\ pc = "run"
    /\ Len(returned) = 1
    /\ clock < MaxDay
    /\ clock' = clock + 1
    /\ UNCHANGED <<pc, returned, extractedData, formData, validationResults,
                   submission, damagePhotos, hashStore, imageResult,
                   imageAnalysisResults, fraudAnalysis, decision, previous,
                   args, analyses, tempFiles>>

RunMakeDecision ==
    /\ pc = "run"
    /\ args.call.entry = "makeDecision"
    /\ returned' = Append(returned,
                       makeDecisionAt(args.call.fraudAnalysis,
                                      args.call.claimAmount, clock))
    /\ pc' = RanTwice
    /\ UNCHANGED callVars

\* each run starts from the registry of the call
RunAnalyzeImage ==
    /\ pc = "run"
    /\ args.call.entry = "analyzeImage"
    /\ \E out \in {analyzeImage(args.call.image, args.call.claimData,
                               args.registry)} :
           /\ returned' = Append(returned, WithoutStore(out))
           /\ hashStore' = out.store
    /\ pc' = RanTwice
    /\ UNCHANGED <<extractedData, formData, validationResults, submission,
                   damagePhotos, clock, imageResult, imageAnalysisResults,
                   fraudAnalysis, decision, previous, args, analyses,
                   tempFiles>>

RunExtractFromDocument ==
    /\ pc = "run"
    /\ args.call.entry = "extractFromDocument"
    /\ returned' = Append(returned,
                       extractFromDocumentAt(args.call.document, clock))
    /\ pc' = RanTwice
    /\ UNCHANGED callVars

RunValidateDocumentData ==
    /\ pc = "run"
    /\ args.call.entry = "validateDocumentData"
    /\ returned' = Append(returned,
                       validateDocumentDataAt(args.call.extractedData,
                                              args.call.formData, clock))
    /\ pc' = RanTwice
    /\ UNCHANGED callVars

RunAnalyzeClaim ==
    /\ pc = "run"
    /\ args.call.entry = "analyzeClaim"
    /\ \E out \in {analyzeClaim(args.call.claimData, args.call.imageBuffers,
                               args.registry, clock)} :
           /\ returned' = Append(returned, WithoutStore(out))
           /\ hashStore' = out.store
    /\ pc' = RanTwice
    /\ UNCHANGED <<extractedData, formData, validationResults, submission,
                   damagePhotos, clock, imageResult, imageAnalysisResults,
                   fraudAnalysis, decision, previous, args, analyses,
                   tempFiles>>

RepeatNext ==
    \/ Later
    \/ RunMakeDecision
    \/ RunAnalyzeImage
    \/ RunExtractFromDocument
    \/ RunValidateDocumentData
    \/ RunAnalyzeClaim

SpecRepeat == RepeatInit /\ [][RepeatNext]_vars

----------------------------------------------------------------------------
(* Properties of repeated runs (checked under SpecRepeat) *)

\* C21: for identical inputs and an identical registry state, two runs of
\* analyzeImage, extractFromDocument, validateDocumentData, analyzeClaim
\* and makeDecision return identical outputs, whatever the instant of each
\* run.
C21_Deterministic == pc = "run twice" => returned[1] = returned[2]

\* the runs whose outputs do not depend on the clock: analyzeImage returns
\* the same result at any two instants
C21_ImageRunsAgree ==
    (pc = "run twice" /\ args.call.entry = "analyzeImage")
        => returned[1] = returned[2]

----------------------------------------------------------------------------
(* Direct calls of fraudDetection.analyzeClaim *)

\* a description of n characters without a watch-list keyword
PlainText(n) == [k \in 1..n |-> IF k % 6 = 0 THEN " " ELSE "x"]

AnalyzedAmounts == {15000, 15250, 60000}

\* day 13 is a Wednesday, day 15 a Friday, day 17 a Sunday
AnalyzedIncidents == {Day(13), Day(15), Day(17)}

AnalyzedDescriptions ==
    {<<>>, PlainText(49), PlainText(50), PlainText(80), ShortKeywords}

\* the validations of the policy documents against the form, and none
ClaimValidations(f) ==
    {NoDocumentValidation}
    \cup {DocumentValidationOf(validateDocumentData(doc.extracted,
              [f EXCEPT !.policyNumber = doc.policyNumber,
                        !.claimantName = doc.claimantName])) :
            doc \in {d \in Documents : d.extracted.ocr = "ok"}}

ClaimsInit ==
    /\ pc = "claim"
    /\ \E amount \in AnalyzedAmounts, incident \in AnalyzedIncidents,
          description \in AnalyzedDescriptions :
       \E f \in {BuildForm(ScenarioD.submitted, JohnSmith, amount,
                           incident)} :
       \E documentValidation \in ClaimValidations(f) :
          args \in [claimData :
                        {ClaimDataOf(FailedExtraction("null"), f,
                             [claimType |-> Auto,
                              description |-> description],
                             documentValidation)},
                    imageBuffers : {<<>>, <<CameraPhoto>>, <<EditedPhoto>>,
                                    <<ReusedPhoto>>}]
    /\ returned = <<>>
    /\ clock \in {15, 17}
    /\ hashStore \in {EmptyStore, SeededStore}
    /\ NoRequest

\* analyzeClaim(claimData, imageBuffers)
ClaimAnalyzed ==
    /\ pc = "claim"
    /\ \E out \in {analyzeClaim(args.claimData, args.imageBuffers,
                               hashStore, clock)} :
           /\ returned' = WithoutStore(out)
           /\ hashStore' = out.store
    /\ pc' = "claim analyzed"
    /\ UNCHANGED <<extractedData, formData, validationResults, submission,
                   damagePhotos, clock, imageResult, imageAnalysisResults,
                   fraudAnalysis, decision, previous, args, analyses,
                   tempFiles>>

ClaimsNext == ClaimAnalyzed

SpecClaims == ClaimsInit /\ [][ClaimsNext]_vars

----------------------------------------------------------------------------
(* Properties of analyzeClaim (checked under SpecClaims) *)

\* the indicators of the behavioral rules among those of a result
BehavioralIndicators(result) ==
    Range(result.indicators)
    \cap {RuleIndicators[k].indicator : k \in 1..Len(RuleIndicators)}

\* Scenario A: 15000, incident on the day of submission, 80 characters
\* without keywords, no document, no images
ScenarioA ==
    /\ args.claimData.claimAmount = 15000
    /\ args.claimData.incidentDate = Day(clock)
    /\ args.claimData.description = PlainText(80)
    /\ ~args.claimData.documentValidation.present
    /\ args.imageBuffers = <<>>

\* C22 as stated: in Scenario A the behavioral indicators are exactly
\* {same-day submission}, the text score is 20 and the fused score equals
\* the text score.
C22_ScenarioA ==
    (pc = "claim analyzed" /\ ScenarioA)
        => /\ BehavioralIndicators(returned)
                  = {"Claim submitted on same day as incident"}
           /\ returned.breakdown.textAnalysisScore = 20
           /\ returned.fraudScore = returned.breakdown.textAnalysisScore

\* C22 amended: in Scenario A the behavioral indicators are the same-day
\* submission and the round claim amount (15000 is a multiple of 1000),
\* and the weekend incident when the day is a Saturday or a Sunday; the
\* text score is 30, or 40 on such a day, and the fused score equals the
\* text score through the text-only branch.
C22_ScenarioARound ==
    (pc = "claim analyzed" /\ ScenarioA)
        => /\ BehavioralIndicators(returned)
                  = {"Claim submitted on same day as incident",
                     "Claim amount is a round number"}
                    \cup (IF DayOfWeek(clock) \in {0, 6}
                          THEN {"Incident occurred on weekend"} ELSE {})
           /\ returned.breakdown.textAnalysisScore
                  = IF DayOfWeek(clock) \in {0, 6} THEN 40 ELSE 30
           /\ returned.fraudScore = returned.breakdown.textAnalysisScore

\* Scenario A on a Friday has been analysed: two indicators and 30 points
C22_Witness ==
    /\ pc = "claim analyzed"
    /\ ScenarioA
    /\ clock = 15
    /\ returned.fraudScore = 30
    /\ returned.indicators
           = <<"Claim submitted on same day as incident",
               "Claim amount is a round number",
               "No damage photos provided for verification">>

----------------------------------------------------------------------------
(* analyzeImage and detectStockPhoto on photos of stock dimensions *)

\* photos of 4000 x 6000 and other sizes, whose EXIF block is missing or
\* carries any of capture time, camera make and GPS position, with an even
\* or an uneven exposure
StockPhotos ==
    {[CameraPhoto EXCEPT !.width = size[1], !.height = size[2],
                         !.exifParses = exif.parses,
                         !.captureDay = exif.captureDay,
                         !.cameraMake = exif.cameraMake, !.gps = exif.gps,
                         !.exposure = exposure] :
        size \in {<<4000, 6000>>, <<6000, 4000>>, <<1920, 1080>>,
                  <<1600, 1200>>},
        exif \in [parses : BOOLEAN, captureDay : {0, 15},
                  cameraMake : BOOLEAN, gps : BOOLEAN],
        exposure \in {30, 60}}

StockInit ==
    /\ pc = "images"
    /\ damagePhotos \in {<<photo>> : photo \in StockPhotos}
    /\ submission = [claimType |-> Auto, description |-> <<>>]
    /\ formData = BuildForm(ScenarioD.submitted, <<>>, 0, AbsentDate)
    /\ hashStore = EmptyStore
    /\ extractedData = FailedExtraction("null")
    /\ validationResults = NewValidationResults
    /\ clock = 20
    /\ Idle

\* detectStockPhoto(damagePhotos[0]), called on its own
DetectStockPhoto ==
    /\ pc = "images"
    /\ returned' = detectStockPhoto(Head(damagePhotos))
    /\ pc' = "stock checked"
    /\ UNCHANGED callVars

StockNext == AnalyzeImage \/ AnalyzeMultipleImages \/ DetectStockPhoto

SpecStock == StockInit /\ [][StockNext]_vars

----------------------------------------------------------------------------
(* Properties of the stock-photo signal (checked under SpecStock) *)

StockIndicators ==
    {"Image dimensions match common stock photo formats",
     "Image resolution matches common stock photo dimensions",
     "Image characteristics suggest it may be a stock photo"}

\* capture timestamp, camera make and GPS are all absent from the metadata
\* the parser returns
NoBasicMetadata(image) ==
    image.captureDay = 0 /\ ~image.cameraMake /\ ~image.gps

\* C23: for an image of 4000 by 6000 pixels with no EXIF data and
\* consistent exposure, the result of analyzeImage contains the stock-photo
\* indicator together with its penalty; and whatever the stock-photo
\* outcome, the 'metadata stripped' indicator is present if and only if
\* capture timestamp, camera make and GPS are all absent from the parsed
\* metadata.
C23_StockPhoto ==
    pc = "image analyzed"
        => /\ (Head(damagePhotos).width = 4000
               /\ Head(damagePhotos).height = 6000
               /\ NoBasicMetadata(Head(damagePhotos))
               /\ Head(damagePhotos).exposure < 40)
                  => /\ Range(imageResult.fraudIndicators)
                            \cap StockIndicators # {}
                     /\ imageResult.fraudScore
                            >= extractExifMetadata(
                                   Head(damagePhotos)).fraudScore + 10
           /\ Head(damagePhotos).exifParses
                  => ("Image metadata stripped - possible attempt to hide origin"
                          \in Range(imageResult.fraudIndicators)
                      <=> NoBasicMetadata(Head(damagePhotos)))

\* the metadata half of the statement alone
C23_StrippedOnly ==
    (pc = "image analyzed" /\ Head(damagePhotos).exifParses)
        => ("Image metadata stripped - possible attempt to hide origin"
                \in Range(imageResult.fraudIndicators)
            <=> NoBasicMetadata(Head(damagePhotos)))

\* detectStockPhoto, called on its own, does flag the photo of Scenario F
C23_DirectCallFlags ==
    (pc = "stock checked"
     /\ Head(damagePhotos).width = 4000 /\ Head(damagePhotos).height = 6000
     /\ Head(damagePhotos).exposure < 40)
        => returned.isStockPhoto /\ returned.fraudScore = 20

----------------------------------------------------------------------------
(* ocrService.extractTables                                                *)
(*                                                                         *)
(* A line is [tabs, runs, pipes, blank]: the numbers of its tabs, of its   *)
(* runs of three or more whitespace characters and of its pipes, and       *)
(* whether line.trim() is empty.  The rows of a table are given by the     *)
(* positions of their lines in the text.                                   *)

\* (line.match(/\t/g) || []).length >= 2 || ... /\s{3,}/g ... || ... /\|/g
HasMultipleColumns(line) ==
    line.tabs >= 2 \/ line.runs >= 2 \/ line.pipes >= 2

\* if (currentTable.length >= 2) tables.push({rows: currentTable, ...})
CloseTable(tables, currentTable) ==
    IF Len(currentTable) >= 2 THEN Append(tables, currentTable) ELSE tables

\* the for loop of extractTables from line k on, and the push after it
RECURSIVE ScanLines(_, _, _, _, _)
ScanLines(lines, k, tables, currentTable, inTable) ==
    IF k > Len(lines) THEN CloseTable(tables, currentTable)
    ELSE IF HasMultipleColumns(lines[k]) /\ ~lines[k].blank
    THEN ScanLines(lines, k + 1, tables, Append(currentTable, k), TRUE)
    ELSE IF inTable /\ lines[k].blank
    THEN ScanLines(lines, k + 1, CloseTable(tables, currentTable), <<>>,
                   FALSE)
    ELSE ScanLines(lines, k + 1, tables, currentTable, inTable)

extractTables(lines) == ScanLines(lines, 1, <<>>, <<>>, FALSE)

\* a line with two tabs, one with two pipes, one with a tab and a pipe,
\* one of plain words, an empty line and a line of two tabs only
TableLines ==
    {[tabs |-> 2, runs |-> 0, pipes |-> 0, blank |-> FALSE],
     [tabs |-> 0, runs |-> 0, pipes |-> 2, blank |-> FALSE],
     [tabs |-> 1, runs |-> 0, pipes |-> 1, blank |-> FALSE],
     [tabs |-> 0, runs |-> 0, pipes |-> 0, blank |-> FALSE],
     [tabs |-> 0, runs |-> 0, pipes |-> 0, blank |-> TRUE],
     [tabs |-> 2, runs |-> 0, pipes |-> 0, blank |-> TRUE]}

MaxLines == 4

TablesInit ==
    /\ pc = "text"
    /\ args \in [lines : ListsUpTo(TableLines, MaxLines)]
    /\ returned = <<>>
    /\ clock = 20
    /\ hashStore = EmptyStore
    /\ NoRequest

\* extractTables(text)
ExtractTables ==
    /\ pc = "text"
    /\ returned' = extractTables(args.lines)
    /\ pc' = "tables extracted"
    /\ UNCHANGED callVars

TablesNext == ExtractTables

SpecTables == TablesInit /\ [][TablesNext]_vars

----------------------------------------------------------------------------
(* Properties of extractTables (checked under SpecTables) *)

\* the lines that count as rows
IsTableRow(line) == HasMultipleColumns(line) /\ ~line.blank

\* the runs of consecutive row lines that no row line precedes or follows,
\* as sequences of positions
RowRuns(lines) ==
    {[k \in 1..(last - first + 1) |-> first + k - 1] :
        <<first, last>> \in
            {<<i, j>> \in (1..Len(lines)) \X (1..Len(lines)) :
                /\ i <= j
                /\ \A k \in i..j : IsTableRow(lines[k])
                /\ i = 1 \/ ~IsTableRow(lines[i - 1])
                /\ j = Len(lines) \/ ~IsTableRow(lines[j + 1])}}

\* C24: every returned table consists of the rows of one run of
\* consecutive multi-column lines; a blank line or the end of the text
\* closes the current table, so two multi-column lines separated by any
\* other line are never rows of the same table; and every such run is
\* returned.
C24_Tables ==
    pc = "tables extracted" => Range(returned) = RowRuns(args.lines)

\* the part of the statement that holds: a table never spans a blank line,
\* and every run of two or more rows lies within a returned table
C24_BlankCloses ==
    pc = "tables extracted"
        => /\ \A t \in 1..Len(returned) :
                 \A k \in returned[t][1]..returned[t][Len(returned[t])] :
                     ~args.lines[k].blank
           /\ \A run \in RowRuns(args.lines) :
                 Len(run) >= 2
                     => \E t \in 1..Len(returned) :
                            Range(run) \subseteq Range(returned[t])

\* the text score the rules other than the description rule give, with 15
\* added when the description rule is due
TextScoreWith(descriptionDue) ==
    Min2(SumOver(PenaltiesOf(Fired(
             FiredRules(args.claimData, clock) \ {"description"})))
         + (IF descriptionDue THEN 15 ELSE 0),
         100)

\* C25: the short-description rule of analyzeClaim fires for every
\* submission whose description is shorter than 50 characters, an empty
\* or absent description included: the 'Insufficient incident description'
\* indicator is added and the text score rises by 15; it does not fire for
\* descriptions of 50 characters or more.
C25_ShortDescription ==
    pc = "claim analyzed"
        => /\ "Insufficient incident description" \in Range(returned.indicators)
                  <=> Len(args.claimData.description) < 50
           /\ returned.breakdown.textAnalysisScore
                  = TextScoreWith(Len(args.claimData.description) < 50)

\* the rule as the code has it: it fires for descriptions of 1 to 49
\* characters
C25_NonEmptyShort ==
    pc = "claim analyzed"
        => /\ "Insufficient incident description" \in Range(returned.indicators)
                  <=> Len(args.claimData.description) \in 1..49
           /\ returned.breakdown.textAnalysisScore
                  = TextScoreWith(Len(args.claimData.description) \in 1..49)

----------------------------------------------------------------------------
(* Direct calls of ocrService.identifyDocumentType                         *)
(*                                                                         *)
(* A text is given by the keywords it contains: for each vocabulary the    *)
(* number of its own keywords, and whether the text has the word           *)
(* 'deductible', which the policy and the medical vocabulary share.        *)

\* countKeywordMatches(textLower, keywords) for the four vocabularies
KeywordCounts(text) ==
    <<text.policy + (IF text.deductible THEN 1 ELSE 0),
      text.repairEstimate,
      text.medicalBill + (IF text.deductible THEN 1 ELSE 0),
      text.policeReport>>

TypedTexts ==
    [policy : 0..MaxKeywordMatches, repairEstimate : 0..MaxKeywordMatches,
     medicalBill : 0..MaxKeywordMatches, policeReport : 0..MaxKeywordMatches,
     deductible : BOOLEAN]

DocTypeInit ==
    /\ pc = "document text"
    /\ args \in [text : TypedTexts]
    /\ returned = <<>>
    /\ clock = 20
    /\ hashStore = EmptyStore
    /\ NoRequest

\* identifyDocumentType(text)
IdentifyDocumentType ==
    /\ pc = "document text"
    /\ returned' = identifyDocumentType(KeywordCounts(args.text))
    /\ pc' = "type identified"
    /\ UNCHANGED callVars

DocTypeNext == IdentifyDocumentType

SpecDocType == DocTypeInit /\ [][DocTypeNext]_vars

----------------------------------------------------------------------------
(* Properties of identifyDocumentType (checked under SpecDocType) *)

\* the highest of the four counts, and their total
HighestCount(scores) ==
    Max2(Max2(scores[1], scores[2]), Max2(scores[3], scores[4]))

TotalCount(scores) == scores[1] + scores[2] + scores[3] + scores[4]

\* C26: the returned type is the one of policy, repair-estimate,
\* medical-bill, police-report with the highest keyword-match count when
\* that count is more than 2, and 'unknown' otherwise; the confidence is
\* the winning count divided by the total of the four counts, as a rounded
\* percentage, and 0 when no keyword matches.
C26_DocumentType ==
    pc = "type identified"
        => /\ returned.type = "unknown"
                  <=> HighestCount(KeywordCounts(args.text)) <= 2
           /\ returned.type # "unknown"
                  => \E k \in 1..4 :
                        /\ DocTypeNames[k] = returned.type
                        /\ KeywordCounts(args.text)[k]
                               = HighestCount(KeywordCounts(args.text))
           /\ returned.confidence
                  = IF TotalCount(KeywordCounts(args.text)) = 0 THEN 0
                    ELSE RoundDiv(
                             100 * HighestCount(KeywordCounts(args.text)),
                             TotalCount(KeywordCounts(args.text)))

\* three repair keywords against two of the policy and one of the police
\* vocabulary: a repair estimate at 50 percent
C26_Witness ==
    /\ pc = "type identified"
    /\ KeywordCounts(args.text) = <<2, 3, 0, 1>>
    /\ returned.type = "repairEstimate"
    /\ returned.confidence = 50

\* two matches at most: unknown, with the share of the highest count
C26_WitnessUnknown ==
    /\ pc = "type identified"
    /\ KeywordCounts(args.text) = <<2, 0, 1, 0>>
    /\ returned.type = "unknown"
    /\ returned.confidence = 67

----------------------------------------------------------------------------
(* detectObjects followed by verifyClaimType, as analyzeImage runs them *)

\* photos over a grid of channel means, with and without a high edge
\* density, and a file sharp cannot read
ColourPhotos ==
    {[CameraPhoto EXCEPT !.red = r, !.green = g, !.blue = b,
                         !.edges = edges] :
        r \in {60, 100, 130, 160, 210}, g \in {60, 100, 130, 160, 210},
        b \in {60, 100, 130, 160, 210}, edges \in BOOLEAN}
    \cup {CorruptFile}

\* the claim types that expectedObjects maps
MappedClaimTypes == {Auto, Home, Health}

VerifyInit ==
    /\ pc = "labels"
    /\ args \in [image : ColourPhotos, claimType : MappedClaimTypes]
    /\ returned = <<>>
    /\ clock = 20
    /\ hashStore = EmptyStore
    /\ NoRequest

\* objectDetection = detectObjects(imageBuffer);
\* verifyClaimType(objectDetection.objects, claimData.claimType)
VerifyClaimType ==
    /\ pc = "labels"
    /\ \E objects \in {detectObjects(args.image)} :
           returned' = [objects |-> objects,
                        claimTypeMatch |->
                            verifyClaimType(objects, args.claimType)]
    /\ pc' = "claim type verified"
    /\ UNCHANGED callVars

VerifyNext == VerifyClaimType

SpecVerify == VerifyInit /\ [][VerifyNext]_vars

----------------------------------------------------------------------------
(* Properties of verifyClaimType (checked under SpecVerify) *)

\* C27: for each of the claim types auto, home and health there is a set
\* of labels detectObjects can produce for which verifyClaimType reports a
\* match and adds no penalty; and the mismatch penalty of 15 is added only
\* when labels were detected and none of them is in the expected set of
\* the claim type.
C27_Satisfiable ==
    pc = "claim type verified"
        => /\ \E image \in ColourPhotos :
                 /\ verifyClaimType(detectObjects(image),
                                    args.claimType).matches
                 /\ verifyClaimType(detectObjects(image),
                                    args.claimType).fraudScore = 0
           /\ returned.claimTypeMatch.fraudScore = 15
                  => /\ Len(returned.objects) > 0
                     /\ Range(returned.objects)
                            \cap ExpectedObjects(
                                     ToLowerCase(args.claimType.text)) = {}

\* what holds instead for health: no label detectObjects produces is among
\* medical, hospital, document and person, so a health claim never matches
\* and is penalised whenever a label is detected
C27_HealthNeverMatches ==
    (pc = "claim type verified" /\ args.claimType = Health)
        => /\ ~returned.claimTypeMatch.matches
           /\ returned.claimTypeMatch.fraudScore
                  = IF Len(returned.objects) > 0 THEN 15 ELSE 0

\* auto and home do have matching label sets, and the penalty is added
\* only when labels were detected and none is expected
C27_PenaltyOnlyOnMismatch ==
    /\ \A claimType \in {Auto, Home} :
           \E image \in ColourPhotos :
               verifyClaimType(detectObjects(image), claimType).matches
    /\ pc = "claim type verified"
           => (returned.claimTypeMatch.fraudScore = 15
                  <=> /\ Len(returned.objects) > 0
                      /\ Range(returned.objects)
                             \cap ExpectedObjects(
                                      ToLowerCase(args.claimType.text)) = {})

\* the sub-scores of a breakdown multiplied by the weights it reports, in
\* hundredths
ReportedSum(breakdown) ==
    breakdown.weights.text * breakdown.textAnalysisScore
    + breakdown.weights.docVal * breakdown.documentValidationScore
    + breakdown.weights.image * breakdown.imageAnalysisScore

\* score is sum / 100 rounded to an integer (a tie in either direction) and
\* clamped to 0..100
IsRoundedClamped(score, sum) ==
    \/ sum >= 9950 /\ score = 100
    \/ sum < 9950 /\ 100 * score - sum \in -50..50

\* C28: the weights reported in the breakdown of a FraudAnalysis are the
\* weights applied to compute its fraudScore: for every combination of
\* present signals, fraudScore equals the rounded, clamped sum of each
\* reported sub-score multiplied by its reported weight.
C28_ReportedWeights ==
    pc = "claim analyzed"
        => IsRoundedClamped(returned.fraudScore,
                            ReportedSum(returned.breakdown))

\* with a document validation and images, the three reported weights are
\* the ones applied
C28_AllThree ==
    (pc = "claim analyzed" /\ args.claimData.documentValidation.present
     /\ Len(args.imageBuffers) > 0)
        => IsRoundedClamped(returned.fraudScore,
                            ReportedSum(returned.breakdown))

----------------------------------------------------------------------------
(* Properties of the pipeline of POST /submit (checked under Spec) *)

\* C29: a submission whose document validation result has isValid = false
\* (policy mismatch, name mismatch, coverage exceeded, incident outside
\* the policy window or failed authenticity) never receives the status
\* APPROVED from analyzeClaim followed by makeDecision, whatever its
\* behavioral and image scores.
C29_InvalidNeverApproved ==
    (Decided /\ extractedData.ocr = "ok" /\ ~validationResults.isValid)
        => decision.status # "APPROVED"

\* isValid is handed through to the analysis unchanged, and the status
\* follows the fused score alone
C29_StatusFromScore ==
    (Decided /\ extractedData.ocr = "ok")
        => /\ fraudAnalysis.documentValidation.isValid
                  = validationResults.isValid
           /\ decision.status = "APPROVED" <=> fraudAnalysis.fraudScore < 40

----------------------------------------------------------------------------
(* Properties of cross-claim detection (checked under SpecOverlap) *)

\* both analyses have finished, each on the one camera photo, under two
\* different claim identifiers
SameImageTwoClaims ==
    /\ \A s \in 1..Len(analyses) :
           analyses[s].pc = "done" /\ analyses[s].images = <<CameraPhoto>>
    /\ analyses[1].claimIdentifier = ThisClaim
    /\ analyses[2].claimIdentifier = OtherClaim

\* C30: if the same image is analysed under two different claim
\* identifiers, in either order or with the two analyses overlapping in
\* time, at least one of the two results carries the cross-claim duplicate
\* indicator and its penalty.
C30_OneIsFlagged ==
    SameImageTwoClaims
        => \E s \in 1..Len(analyses) : analyses[s].results[1].duplicates > 0

\* what holds: when both analyses obtained a hash, exactly the one whose
\* comparison ran second is flagged
C30_FlaggedWhenBothHashed ==
    (SameImageTwoClaims /\ \A s \in 1..Len(analyses) : analyses[s].hashed = 1)
        => Cardinality({s \in 1..Len(analyses) :
                           analyses[s].results[1].duplicates > 0}) = 1

====
